---- MODULE Spec2Model ----
(***************************************************************************)
(* Model of the zapply scraper pipeline (src/scraper/src/main.rs):         *)
(* the company stream of main(), process_company with its enrichment       *)
(* stream, the shared batch buffer and dedup cache with their mutexes,     *)
(* the threshold flush, the final flush and the cache save.                *)
(***************************************************************************)
EXTENDS Integers, Sequences, FiniteSets, Bags, TLC

\* ------------------------------------------------------------------------
\* Bounds of the model
\* ------------------------------------------------------------------------
\* number of entries of the company list (slugs.json after --limit)
NumCompanies == 3
\* vendor job ids a payload may carry: 1..NumVendorIds
NumVendorIds == 2
\* largest number of raw items in one vendor payload
MaxItems == 2
\* value used for BATCH_SIZE (100 in the source, scaled to keep the model finite)
BatchScale == 2
\* largest value of config.concurrency (default 25, any usize from CONCURRENCY)
ConcurrencyScale == 2
\* value used for the width of the enrichment stream (10 in the source)
EnrichScale == 1
\* largest number of raw items in the payload of the process_company call taken alone
CallMaxItems == 2
\* largest number of tags a parser puts on a job
MaxParserTags == 2
\* largest number of jobs in the list given to the insert_jobs call taken alone
MaxInsertJobs == 2
\* largest number of parameters of a DbQuery, and of pieces of its SQL text
MaxParams == 2
MaxSqlPieces == 3
\* longest string parameter
MaxStringLen == 2
\* largest number of segments of a raw location
MaxSegments == 3
\* statements per chunk of LocalWranglerD1 (1000 in the source) and of RemoteD1
\* (50 in the source), and the longest statement list given to execute_batch
LocalChunkScale == 3
RemoteChunkScale == 2
MaxStatements == 7
\* largest number of elements of a JSON array given to a parser
MaxJsonItems == 2
\* longest text given to a tag rule, in pieces, and largest word distance of a rule
MaxTextLen == 5
MaxDistance == 1

\* ------------------------------------------------------------------------
\* Program constants and inputs
\* ------------------------------------------------------------------------
\* const BATCH_SIZE: usize = 100
BATCH_SIZE == BatchScale
\* values of config.concurrency: CONCURRENCY is parsed as a usize, zero included
ConcurrencyValues == 0..ConcurrencyScale
\* .buffer_unordered(10) in process_company
ENRICH_WIDTH == EnrichScale

CutoffDefaultDays == 60
CutoffEoiDays == 120

\* the company list: the ATS kind of the c-th company
AtsCycle == <<"workable", "greenhouse", "workable", "unknown", "smartrecruiters",
              "ashby", "recruitee", "lever", "breezy">>
AtsOf(c) == AtsCycle[((c - 1) % Len(AtsCycle)) + 1]
Companies == 1..NumCompanies

\* the tasks that can hold a lock: company tasks, and 0 for main itself
NoOne == -1
MainTask == 0

\* titles, by what the two keyword regexes and the EOI test say of them
Titles == {"intern", "senior intern", "manager", "eoi intern"}
PipelineTitles == {"intern", "manager"}
keyword_regex(title) == title \in {"intern", "senior intern", "eoi intern"}
negative_regex(title) == title \in {"senior intern", "manager"}
is_eoi(title) == title \in {"eoi intern"}

\* a date: empty, or a format with the age in days before now of its instant; "other"
\* is a string none of the formats of normalize_date reads, "invalid" a Job.posted
\* that parse_from_rfc3339 rejects
PostedEmpty == [kind |-> "empty", age |-> 0]
PipelinePosted == {PostedEmpty}

\* normalize_date: RFC-3339, RFC-2822 and Unix timestamps become RFC-3339 in UTC,
\* the empty string stays empty, any other string is returned as it is
normalize_date(date) ==
    IF date.kind \in {"rfc3339", "rfc2822", "unix"} THEN [kind |-> "rfc3339", age |-> date.age]
    ELSE IF date.kind = "empty" THEN PostedEmpty
    ELSE [kind |-> "invalid", age |-> 0]
\* the list payloads of the pipeline carry no description: enrichment supplies it
PipelineDescriptions == {""}

\* Job.id, as new_job formats it: "<ats>-<vendor id>"
JobId(ats, vid) == <<ats, vid>>

\* a raw item of a vendor payload; decodes: whether it has the structure the
\* parser's serde types require
RawItems == [vid : 1..NumVendorIds, title : PipelineTitles,
             description : PipelineDescriptions, posted : PipelinePosted,
             decodes : {TRUE}]

RECURSIVE SeqsUpTo(_, _)
SeqsUpTo(S, n) ==
    IF n = 0 THEN {<<>>}
    ELSE LET shorter == SeqsUpTo(S, n - 1)
         IN shorter \cup {Append(s, x) : s \in {t \in shorter : Len(t) = n - 1}, x \in S}

Payloads == SeqsUpTo(RawItems, MaxItems)

\* AtsType::new_job plus the fields the parsers fill in
new_job(company, item) ==
    [id |-> JobId(AtsOf(company), item.vid), title |-> item.title,
     description |-> item.description, posted |-> normalize_date(item.posted),
     ats |-> AtsOf(company), company |-> company]

\* parse with Unknown treated like a vendor that lists jobs
parse_UnknownParsed(company, payload) ==
    [i \in 1..Len(payload) |-> new_job(company, payload[i])]

\* AtsParser::parse, the Ok value: unknown kinds yield an empty list
parse(company, payload) ==
    IF AtsOf(company) = "unknown" THEN <<>>
    ELSE [i \in 1..Len(payload) |-> new_job(company, payload[i])]

\* AtsParser::parse returns Err: serde decodes the whole item list or nothing, so one
\* item of an unrecognized structure fails the parse of a known kind
parse_is_err(company, payload) ==
    /\ AtsOf(company) # "unknown"
    /\ \E i \in 1..Len(payload) : ~payload[i].decodes

\* AtsParser::estimate_raw_item_count: the length of the jobs array, for two kinds
estimate_raw_item_count(company, payload) ==
    IF AtsOf(company) \in {"greenhouse", "ashby"} THEN Len(payload) ELSE 0

\* the filter without the negative keyword test
PassesFilter_NoNegative(j) ==
    /\ keyword_regex(j.title)
    /\ LET cutoff == IF is_eoi(j.title) THEN CutoffEoiDays ELSE CutoffDefaultDays
       IN (j.posted.kind = "rfc3339") => ~(j.posted.age >= cutoff)

\* the filter with the relaxed cutoff used for every title
PassesFilter_EoiCutoffForAll(j) ==
    /\ keyword_regex(j.title)
    /\ ~negative_regex(j.title)
    /\ (j.posted.kind = "rfc3339") => ~(j.posted.age >= CutoffEoiDays)

\* the filter_map closure of process_company
PassesFilter(j) ==
    /\ keyword_regex(j.title)
    /\ ~negative_regex(j.title)
    /\ LET cutoff == IF is_eoi(j.title) THEN CutoffEoiDays ELSE CutoffDefaultDays
       IN (j.posted.kind = "rfc3339") => ~(j.posted.age >= cutoff)

RECURSIVE FilterSeq(_)
FilterSeq(s) ==
    IF s = <<>> THEN <<>>
    ELSE IF PassesFilter(Head(s)) THEN <<Head(s)>> \o FilterSeq(Tail(s))
         ELSE FilterSeq(Tail(s))

\* which kinds enrich_job fetches a detail page for
HasDetailEndpoint(ats) == ats \in {"workable", "smartrecruiters", "recruitee"}

\* enrich_job: does this job make a detail request
NeedsDetailFetch(j) == j.description = "" /\ HasDetailEndpoint(j.ats)

\* outcomes of the detail request: send() failed, or a response came with a status
\* and a body that is not the detail JSON, is a detail without text, or has text
RequestError == [sent |-> FALSE, status_ok |-> FALSE, body |-> "none"]
DetailOutcomes ==
    {RequestError}
    \cup [sent : {TRUE}, status_ok : BOOLEAN, body : {"undecodable", "no_text", "text"}]
\* in the pipeline every detail request fails, so each job keeps one shape
PipelineOutcomes == {RequestError}

\* the text the detail response puts into the description (after clean_html)
DetailText(outcome) == IF outcome.body = "text" THEN "text" ELSE ""

\* enrich_job on a job, given the outcome of the detail request: only the
\* SmartRecruiters arm looks at the status
enrich_job(j, outcome) ==
    IF ~NeedsDetailFetch(j) THEN j
    ELSE IF /\ outcome.sent
            /\ outcome.body # "undecodable"
            /\ (j.ats = "smartrecruiters" => outcome.status_ok)
         THEN [j EXCEPT !.description = DetailText(outcome)]
         ELSE j

RECURSIVE SeqIds(_)
SeqIds(s) == IF s = <<>> THEN {} ELSE {Head(s).id} \cup SeqIds(Tail(s))


\* the for loop with the membership test forgotten: every job is pushed
RECURSIVE PushNew_NoMembershipTest(_, _, _)
PushNew_NoMembershipTest(js, c, b) ==
    IF js = <<>> THEN [cache |-> c, buffer |-> b]
    ELSE PushNew_NoMembershipTest(Tail(js), c \cup {Head(js).id}, Append(b, Head(js)))

\* the for loop with contains() in place of insert(): the cache never grows
RECURSIVE PushNew_CacheNotExtended(_, _, _)
PushNew_CacheNotExtended(js, c, b) ==
    IF js = <<>> THEN [cache |-> c, buffer |-> b]
    ELSE IF Head(js).id \notin c
         THEN PushNew_CacheNotExtended(Tail(js), c, Append(b, Head(js)))
         ELSE PushNew_CacheNotExtended(Tail(js), c, b)

\* the ids of the jobs in the buffer b
BufferIds(b) == {b[k].id : k \in 1..Len(b)}

\* the for loop with ids of the initial dedup set taken for new ones
RECURSIVE PushNew_InitialIdsForgotten(_, _, _)
PushNew_InitialIdsForgotten(js, c, b) ==
    IF js = <<>> THEN [cache |-> c, buffer |-> b]
    ELSE IF Head(js).id \notin BufferIds(b)
         THEN PushNew_InitialIdsForgotten(Tail(js), c \cup {Head(js).id},
                                          Append(b, Head(js)))
         ELSE PushNew_InitialIdsForgotten(Tail(js), c, b)

\* the for loop of the worker critical section: cache_guard.insert, then push
RECURSIVE PushNew(_, _, _)
PushNew(js, c, b) ==
    IF js = <<>> THEN [cache |-> c, buffer |-> b]
    ELSE IF Head(js).id \notin c
         THEN PushNew(Tail(js), c \cup {Head(js).id}, Append(b, Head(js)))
         ELSE PushNew(Tail(js), c, b)

\* should_flush with > in place of >=
should_flush_Strict(b) == Len(b) > BATCH_SIZE

\* let should_flush = buffer.len() >= BATCH_SIZE
should_flush(b) == Len(b) >= BATCH_SIZE

\* ------------------------------------------------------------------------
\* State
\* ------------------------------------------------------------------------
VARIABLES
    main_pc,         \* where main() is: "stream", "final_insert", "save", and how it
                     \* returned: "exit_ok", "err_insert", "err_save"
    started,         \* companies the stream iterator has handed out so far
    pc,              \* where each company task is
    filtered,        \* per company: the jobs that passed the filter, in payload order
    enrich_next,     \* per company: jobs handed to the enrichment stream so far
    in_flight,       \* per company: indices of the enrich_job futures in flight
    collected,       \* per company: the enriched jobs collected so far
    result,          \* per company: what process_company returned
    jobs_to_insert,  \* per company: the batch the task took from the buffer
    batch_buffer,    \* the shared Vec<Job>
    cache,           \* the shared HashSet<String> of job ids
    buffer_lock,     \* holder of batch_buffer's mutex
    cache_lock,      \* holder of cache's mutex
    log_file,        \* whether --log-file gave a log file
    concurrency,     \* config.concurrency, the width of the company stream
    log_lock,        \* holder of the log file's mutex
    jobs_count, failures_count, inserted_count,
    pb_pos,          \* position of the progress bar
    remaining_jobs,  \* what the final flush took from the buffer
    cache_file,      \* contents of the cache file
    cache_saved,     \* whether this run wrote the cache file
    store,           \* ids of the rows of the jobs table
    batches,         \* history: every call of insert_jobs, in the order the calls began
    discovered,      \* history: ids of the jobs returned by successful process_company calls
    init_cache,      \* history: the dedup set the run started with
    njob,            \* the job one call of normalize_job works on: pc, tags, title,
                     \* description, location
    tables,          \* the store in full: the rows of jobs, the rows of the five join
                     \* tables, whether the join tables have a key on (job_id, name)
    icall,           \* insert_jobs taken alone: its list, the calls made, the store
                     \* after the first call
    query,           \* to_sql taken alone: the pieces of the SQL text, the parameters,
                     \* the SQL it returned
    geo,             \* initialize_geo_tables taken alone: the adapter, the countries
                     \* and regions tables, the maps given, the calls made
    dloc,            \* display_format taken alone: the LocationInfo and the string returned
    rloc,            \* resolve taken alone: the raw location and the LocationInfo returned
    tcall,           \* one rule of detect_tags taken alone: the text, the rule, whether its tag came out
    jcall,           \* parse of Greenhouse and Ashby taken alone: the JSON value, the result, the raw item count
    bcall,           \* execute_batch taken alone: the adapter, the statements, the chunks submitted, the statements applied, the result
    ucall,           \* insert_jobs of one job whose id has a row: the stored row and join rows, the job, the row and join rows after
    pcall            \* one call of process_company taken alone, and what its task
                     \* pushes: company, pc, data, alert, filtered, outcomes,
                     \* collected, requests, result

vars == <<main_pc, started, pc, filtered, enrich_next, in_flight, collected, result,
          jobs_to_insert, batch_buffer, cache, buffer_lock, cache_lock, log_file,
          concurrency, log_lock, jobs_count, failures_count, inserted_count, pb_pos,
          remaining_jobs, cache_file, cache_saved, store, batches, discovered,
          init_cache, pcall, njob, tables, icall, query, geo, dloc, rloc, tcall, jcall, bcall, ucall>>

task_vars == <<filtered, enrich_next, in_flight, collected, result, jobs_to_insert>>
lock_vars == <<buffer_lock, cache_lock, log_lock>>
count_vars == <<jobs_count, failures_count, inserted_count, pb_pos>>
main_vars == <<main_pc, started, remaining_jobs, cache_file, cache_saved>>
const_vars == <<log_file, init_cache, concurrency>>
hist_vars == <<batches, discovered>>
unit_vars == <<pcall, njob, tables, icall, query, geo, dloc, rloc, tcall, jcall, bcall, ucall>>

\* ids the cache file, and the jobs table, hold when the run starts: an earlier run
\* found workable-1 and wrote it to both
FileIds == {JobId("workable", 1)}
StoreIds == {JobId("workable", 1)}

NoResult == [status |-> "none", jobs |-> <<>>]

\* no process_company call is taken alone
NoCall ==
    [company |-> 0, pc |-> "idle", data |-> <<>>, alert |-> FALSE, filtered |-> <<>>,
     outcomes |-> <<>>, collected |-> <<>>, requests |-> 0, result |-> NoResult]

\* main() up to the construction of the stream: cache = file contents + existing ids
InitPipeline ==
    /\ main_pc = "stream"
    /\ started = 0
    /\ pc = [c \in Companies |-> "idle"]
    /\ filtered = [c \in Companies |-> <<>>]
    /\ enrich_next = [c \in Companies |-> 0]
    /\ in_flight = [c \in Companies |-> {}]
    /\ collected = [c \in Companies |-> <<>>]
    /\ result = [c \in Companies |-> NoResult]
    /\ jobs_to_insert = [c \in Companies |-> <<>>]
    /\ batch_buffer = <<>>
    /\ cache_file = FileIds
    /\ store = StoreIds
    /\ cache = cache_file \cup store
    /\ init_cache = cache
    /\ buffer_lock = NoOne
    /\ cache_lock = NoOne
    /\ log_file \in BOOLEAN
    /\ concurrency \in ConcurrencyValues
    /\ log_lock = NoOne
    /\ jobs_count = 0
    /\ failures_count = 0
    /\ inserted_count = 0
    /\ pb_pos = 0
    /\ remaining_jobs = <<>>
    /\ cache_saved = FALSE
    /\ batches = <<>>
    /\ discovered = {}

\* no job is in normalize_job
NoJob == [pc |-> "idle", tags |-> <<>>, title |-> {}, description |-> {}, location |-> {}]

\* the five join tables, in the order of the DELETE statements, and the Job field
\* each takes its rows from
JoinTables ==
    <<"job_degree_levels", "job_subject_areas", "job_departments", "job_offices",
      "job_tags">>
JoinField ==
    [job_degree_levels |-> "degree_levels", job_subject_areas |-> "subject_areas",
     job_departments |-> "departments", job_offices |-> "offices", job_tags |-> "tags"]
JoinTableSet == {JoinTables[k] : k \in 1..Len(JoinTables)}

\* a store without rows
EmptyTables(unique) ==
    [jobs |-> {}, joins |-> [t \in JoinTableSet |-> EmptyBag], unique |-> unique]

\* insert_jobs is not called
NoInsert == [jobs |-> <<>>, calls |-> 0, once |-> EmptyTables(TRUE)]

\* to_sql is not called
NoQuery == [pc |-> "idle", pieces |-> <<>>, params |-> <<>>, out |-> <<>>]

\* initialize_geo_tables is not called
NoGeo == [adapter |-> "local", unique |-> TRUE, countries |-> EmptyBag,
          regions |-> EmptyBag, in_countries |-> <<>>, in_regions |-> <<>>,
          log |-> <<>>, once |-> <<EmptyBag, EmptyBag>>]

\* display_format is not called
NoDisplay == [pc |-> "idle", info |-> <<>>, out |-> ""]

\* resolve is not called
NoResolve == [pc |-> "idle", raw |-> <<>>, out |-> <<>>]

\* detect_tags is not called on a rule
NoTagCall == [pc |-> "idle", text |-> <<>>, rule |-> <<>>, emitted |-> FALSE]

\* the parsers are not called on a JSON value
NoParse == [pc |-> "idle", ats |-> "unknown", data |-> <<>>, ok |-> FALSE, jobs |-> 0, raw_item_count |-> 0]

\* execute_batch is not called
NoBatch == [pc |-> "idle", adapter |-> "local", queries |-> <<>>, next |-> 1, submitted |-> <<>>, applied |-> <<>>, result |-> "none"]

\* the UPSERT is not run on a stored row
NoUpsert == [pc |-> "idle", stored |-> <<>>, job |-> <<>>, before |-> EmptyTables(TRUE), row |-> <<>>, t |-> EmptyTables(TRUE)]

\* the calls taken alone are not made
UnitsIdle ==
    /\ pcall = NoCall
    /\ ucall = NoUpsert
    /\ bcall = NoBatch
    /\ jcall = NoParse
    /\ tcall = NoTagCall
    /\ rloc = NoResolve
    /\ dloc = NoDisplay
    /\ njob = NoJob
    /\ tables = EmptyTables(TRUE)
    /\ icall = NoInsert
    /\ query = NoQuery
    /\ geo = NoGeo

Init == InitPipeline /\ UnitsIdle

\* futures the outer buffer_unordered holds: handed out and not yet completed
InProgress == {c \in Companies : pc[c] \notin {"idle", "done"}}

\* ------------------------------------------------------------------------
\* The company stream: buffer_unordered(config.concurrency)
\* ------------------------------------------------------------------------
\* the stream pulling one company too many
StartCompany_OneTooMany ==
    /\ main_pc = "stream"
    /\ started < NumCompanies
    /\ Cardinality(InProgress) <= concurrency
    /\ started' = started + 1
    /\ pc' = [pc EXCEPT ![started + 1] = "fetch"]
    /\ UNCHANGED <<main_pc, remaining_jobs, cache_file, cache_saved>>
    /\ UNCHANGED <<task_vars, lock_vars, count_vars, const_vars, unit_vars>>
    /\ UNCHANGED <<batch_buffer, cache, store, hist_vars>>

\* the stream pulls the next company while fewer than concurrency are in progress
StartCompany ==
    /\ main_pc = "stream"
    /\ started < NumCompanies
    /\ Cardinality(InProgress) < concurrency
    /\ started' = started + 1
    /\ pc' = [pc EXCEPT ![started + 1] = "fetch"]
    /\ UNCHANGED <<main_pc, remaining_jobs, cache_file, cache_saved>>
    /\ UNCHANGED <<task_vars, lock_vars, count_vars, const_vars, unit_vars>>
    /\ UNCHANGED <<batch_buffer, cache, store, hist_vars>>

\* ------------------------------------------------------------------------
\* process_company
\* ------------------------------------------------------------------------
\* the list request answered and decoded: parse, filter, set up the enrichment stream
FetchOk(c) ==
    /\ pc[c] = "fetch"
    /\ \E payload \in Payloads :
         filtered' = [filtered EXCEPT ![c] = FilterSeq(parse(c, payload))]
    /\ pc' = [pc EXCEPT ![c] = "enrich"]
    /\ UNCHANGED <<enrich_next, in_flight, collected, result, jobs_to_insert>>
    /\ UNCHANGED <<main_vars, lock_vars, count_vars, const_vars, unit_vars>>
    /\ UNCHANGED <<batch_buffer, cache, store, hist_vars>>

\* the enrichment stream starts the next enrich_job while fewer than 10 are in flight
EnrichStart(c) ==
    /\ pc[c] = "enrich"
    /\ enrich_next[c] < Len(filtered[c])
    /\ Cardinality(in_flight[c]) < ENRICH_WIDTH
    /\ enrich_next' = [enrich_next EXCEPT ![c] = @ + 1]
    /\ in_flight' = [in_flight EXCEPT ![c] = @ \cup {enrich_next[c] + 1}]
    /\ UNCHANGED <<pc, filtered, collected, result, jobs_to_insert>>
    /\ UNCHANGED <<main_vars, lock_vars, count_vars, const_vars, unit_vars>>
    /\ UNCHANGED <<batch_buffer, cache, store, hist_vars>>

\* each enriched job pushed to the shared buffer as soon as it is ready
EnrichFinish_PushedEarly(c) ==
    /\ pc[c] = "enrich"
    /\ \E i \in in_flight[c], outcome \in PipelineOutcomes :
         /\ in_flight' = [in_flight EXCEPT ![c] = @ \ {i}]
         /\ collected' = [collected EXCEPT ![c] = Append(@, enrich_job(filtered[c][i], outcome))]
         /\ batch_buffer' = Append(batch_buffer, enrich_job(filtered[c][i], outcome))
    /\ UNCHANGED <<pc, filtered, enrich_next, result, jobs_to_insert>>
    /\ UNCHANGED <<main_vars, lock_vars, count_vars, const_vars, unit_vars>>
    /\ UNCHANGED <<cache, store, hist_vars>>

\* one enrich_job completes (it always returns Ok) and the job is normalized and collected
EnrichFinish(c) ==
    /\ pc[c] = "enrich"
    /\ \E i \in in_flight[c], outcome \in PipelineOutcomes :
         /\ in_flight' = [in_flight EXCEPT ![c] = @ \ {i}]
         /\ collected' = [collected EXCEPT ![c] = Append(@, enrich_job(filtered[c][i], outcome))]
    /\ UNCHANGED <<pc, filtered, enrich_next, result, jobs_to_insert>>
    /\ UNCHANGED <<main_vars, lock_vars, count_vars, const_vars, unit_vars>>
    /\ UNCHANGED <<batch_buffer, cache, store, hist_vars>>

\* where a task goes after the match on the result: the log line, if there is a log file
AfterMatch == IF log_file THEN "log_lock" ELSE "lock_buffer"

\* process_company returns Ok(filtered_jobs), its locals are dropped; the task's Ok arm
\* counts the jobs
ProcessOk(c) ==
    /\ pc[c] = "enrich"
    /\ enrich_next[c] = Len(filtered[c])
    /\ in_flight[c] = {}
    /\ result' = [result EXCEPT ![c] = [status |-> "ok", jobs |-> collected[c]]]
    /\ filtered' = [filtered EXCEPT ![c] = <<>>]
    /\ enrich_next' = [enrich_next EXCEPT ![c] = 0]
    /\ collected' = [collected EXCEPT ![c] = <<>>]
    /\ jobs_count' = jobs_count + Len(collected[c])
    /\ discovered' = discovered \cup SeqIds(collected[c])
    /\ pc' = [pc EXCEPT ![c] = AfterMatch]
    /\ UNCHANGED <<in_flight, jobs_to_insert>>
    /\ UNCHANGED <<failures_count, inserted_count, pb_pos>>
    /\ UNCHANGED <<main_vars, lock_vars, const_vars, unit_vars>>
    /\ UNCHANGED <<batch_buffer, cache, store, batches>>

\* the Err arm without failures_count.fetch_add(1)
ProcessErr_NotCounted(c) ==
    /\ pc[c] = "fetch"
    /\ result' = [result EXCEPT ![c] = [status |-> "err", jobs |-> <<>>]]
    /\ pc' = [pc EXCEPT ![c] = AfterMatch]
    /\ UNCHANGED <<filtered, enrich_next, in_flight, collected, jobs_to_insert>>
    /\ UNCHANGED <<jobs_count, failures_count, inserted_count, pb_pos>>
    /\ UNCHANGED <<main_vars, lock_vars, const_vars, unit_vars>>
    /\ UNCHANGED <<batch_buffer, cache, store, hist_vars>>

\* process_company returns Err (request error, HTTP status, body, JSON decode, parser);
\* the task's Err arm counts one failure and goes on with no jobs
ProcessErr(c) ==
    /\ pc[c] = "fetch"
    /\ result' = [result EXCEPT ![c] = [status |-> "err", jobs |-> <<>>]]
    /\ failures_count' = failures_count + 1
    /\ pc' = [pc EXCEPT ![c] = AfterMatch]
    /\ UNCHANGED <<filtered, enrich_next, in_flight, collected, jobs_to_insert>>
    /\ UNCHANGED <<jobs_count, inserted_count, pb_pos>>
    /\ UNCHANGED <<main_vars, lock_vars, const_vars, unit_vars>>
    /\ UNCHANGED <<batch_buffer, cache, store, hist_vars>>


\* ------------------------------------------------------------------------
\* The company task after process_company
\* ------------------------------------------------------------------------
\* let mut f = f.lock().unwrap()
LogLock(c) ==
    /\ pc[c] = "log_lock"
    /\ log_lock = NoOne
    /\ log_lock' = c
    /\ pc' = [pc EXCEPT ![c] = "log_write"]
    /\ UNCHANGED <<buffer_lock, cache_lock>>
    /\ UNCHANGED <<task_vars, main_vars, count_vars, const_vars, unit_vars>>
    /\ UNCHANGED <<batch_buffer, cache, store, hist_vars>>

\* writeln!(f, ...), and the guard is dropped at the end of the block
LogWrite(c) ==
    /\ pc[c] = "log_write"
    /\ log_lock' = NoOne
    /\ pc' = [pc EXCEPT ![c] = "lock_buffer"]
    /\ UNCHANGED <<buffer_lock, cache_lock>>
    /\ UNCHANGED <<task_vars, main_vars, count_vars, const_vars, unit_vars>>
    /\ UNCHANGED <<batch_buffer, cache, store, hist_vars>>

\* the buffer taken without waiting for its mutex
LockBuffer_NoWait(c) ==
    /\ pc[c] = "lock_buffer"
    /\ buffer_lock' = c
    /\ pc' = [pc EXCEPT ![c] = "lock_cache"]
    /\ UNCHANGED <<cache_lock, log_lock>>
    /\ UNCHANGED <<task_vars, main_vars, count_vars, const_vars, unit_vars>>
    /\ UNCHANGED <<batch_buffer, cache, store, hist_vars>>

\* let mut buffer = batch_buffer.lock().unwrap()
LockBuffer(c) ==
    /\ pc[c] = "lock_buffer"
    /\ buffer_lock = NoOne
    /\ buffer_lock' = c
    /\ pc' = [pc EXCEPT ![c] = "lock_cache"]
    /\ UNCHANGED <<cache_lock, log_lock>>
    /\ UNCHANGED <<task_vars, main_vars, count_vars, const_vars, unit_vars>>
    /\ UNCHANGED <<batch_buffer, cache, store, hist_vars>>

\* let mut cache_guard = cache.lock().unwrap()
LockCache(c) ==
    /\ pc[c] = "lock_cache"
    /\ cache_lock = NoOne
    /\ cache_lock' = c
    /\ pc' = [pc EXCEPT ![c] = "push"]
    /\ UNCHANGED <<buffer_lock, log_lock>>
    /\ UNCHANGED <<task_vars, main_vars, count_vars, const_vars, unit_vars>>
    /\ UNCHANGED <<batch_buffer, cache, store, hist_vars>>

\* the batch write started before the two guards are dropped
PushAndTake_InsertUnderLock(c) ==
    /\ pc[c] = "push"
    /\ LET pushed == PushNew(result[c].jobs, cache, batch_buffer)
       IN /\ cache' = pushed.cache
          /\ IF should_flush(pushed.buffer)
             THEN /\ jobs_to_insert' = [jobs_to_insert EXCEPT ![c] = pushed.buffer]
                  /\ batch_buffer' = <<>>
                  /\ pc' = [pc EXCEPT ![c] = "insert"]
                  /\ batches' = Append(batches, [by |-> c, jobs |-> pushed.buffer,
                                                 status |-> "pending"])
             ELSE /\ jobs_to_insert' = [jobs_to_insert EXCEPT ![c] = <<>>]
                  /\ batch_buffer' = pushed.buffer
                  /\ pc' = [pc EXCEPT ![c] = "drop_buffer"]
                  /\ batches' = batches
    /\ result' = [result EXCEPT ![c].jobs = <<>>]
    /\ UNCHANGED <<filtered, enrich_next, in_flight, collected>>
    /\ UNCHANGED <<main_vars, lock_vars, count_vars, const_vars, unit_vars>>
    /\ UNCHANGED <<store, discovered>>

\* the critical section with the batch copied out of the buffer, not taken from it
PushAndTake_BufferKept(c) ==
    /\ pc[c] = "push"
    /\ LET pushed == PushNew(result[c].jobs, cache, batch_buffer)
       IN /\ cache' = pushed.cache
          /\ batch_buffer' = pushed.buffer
          /\ IF should_flush(pushed.buffer)
             THEN jobs_to_insert' = [jobs_to_insert EXCEPT ![c] = pushed.buffer]
             ELSE jobs_to_insert' = [jobs_to_insert EXCEPT ![c] = <<>>]
    /\ result' = [result EXCEPT ![c].jobs = <<>>]
    /\ pc' = [pc EXCEPT ![c] = "drop_buffer"]
    /\ UNCHANGED <<filtered, enrich_next, in_flight, collected>>
    /\ UNCHANGED <<main_vars, lock_vars, count_vars, const_vars, unit_vars>>
    /\ UNCHANGED <<store, hist_vars>>

\* the for loop (it consumes jobs), then should_flush and std::mem::take, all under
\* both guards
PushAndTake(c) ==
    /\ pc[c] = "push"
    /\ LET pushed == PushNew(result[c].jobs, cache, batch_buffer)
       IN /\ cache' = pushed.cache
          /\ IF should_flush(pushed.buffer)
             THEN /\ jobs_to_insert' = [jobs_to_insert EXCEPT ![c] = pushed.buffer]
                  /\ batch_buffer' = <<>>
             ELSE /\ jobs_to_insert' = [jobs_to_insert EXCEPT ![c] = <<>>]
                  /\ batch_buffer' = pushed.buffer
    /\ result' = [result EXCEPT ![c].jobs = <<>>]
    /\ pc' = [pc EXCEPT ![c] = "drop_buffer"]
    /\ UNCHANGED <<filtered, enrich_next, in_flight, collected>>
    /\ UNCHANGED <<main_vars, lock_vars, count_vars, const_vars, unit_vars>>
    /\ UNCHANGED <<store, hist_vars>>

\* drop(buffer)
DropBuffer(c) ==
    /\ pc[c] = "drop_buffer"
    /\ buffer_lock' = NoOne
    /\ pc' = [pc EXCEPT ![c] = "drop_cache"]
    /\ UNCHANGED <<cache_lock, log_lock>>
    /\ UNCHANGED <<task_vars, main_vars, count_vars, const_vars, unit_vars>>
    /\ UNCHANGED <<batch_buffer, cache, store, hist_vars>>

\* drop(cache_guard); then, if !jobs_to_insert.is_empty(), db.insert_jobs begins
DropCache(c) ==
    /\ pc[c] = "drop_cache"
    /\ cache_lock' = NoOne
    /\ IF jobs_to_insert[c] # <<>>
       THEN /\ pc' = [pc EXCEPT ![c] = "insert"]
            /\ batches' = Append(batches, [by |-> c, jobs |-> jobs_to_insert[c],
                                           status |-> "pending"])
       ELSE /\ pc' = [pc EXCEPT ![c] = "progress"]
            /\ batches' = batches
    /\ UNCHANGED <<buffer_lock, log_lock>>
    /\ UNCHANGED <<task_vars, main_vars, count_vars, const_vars, unit_vars>>
    /\ UNCHANGED <<batch_buffer, cache, store, discovered>>

\* the index in batches of the call of insert_jobs that task t made
BatchOf(t) == CHOOSE i \in 1..Len(batches) : batches[i].by = t

\* db.insert_jobs returned Ok: inserted_count.fetch_add(count)
InsertOk(c) ==
    /\ pc[c] = "insert"
    /\ store' = store \cup SeqIds(jobs_to_insert[c])
    /\ inserted_count' = inserted_count + Len(jobs_to_insert[c])
    /\ batches' = [batches EXCEPT ![BatchOf(c)].status = "ok"]
    /\ pc' = [pc EXCEPT ![c] = "progress"]
    /\ UNCHANGED <<jobs_count, failures_count, pb_pos>>
    /\ UNCHANGED <<task_vars, main_vars, lock_vars, const_vars, unit_vars>>
    /\ UNCHANGED <<batch_buffer, cache, discovered>>

\* db.insert_jobs returned Err: warn!("Failed to insert batch"), nothing else
InsertErr(c) ==
    /\ pc[c] = "insert"
    /\ batches' = [batches EXCEPT ![BatchOf(c)].status = "err"]
    /\ pc' = [pc EXCEPT ![c] = "progress"]
    /\ UNCHANGED <<task_vars, main_vars, lock_vars, count_vars, const_vars, unit_vars>>
    /\ UNCHANGED <<batch_buffer, cache, store, discovered>>

\* pb.inc(1); the task's future completes and drops jobs_to_insert
Progress(c) ==
    /\ pc[c] = "progress"
    /\ pb_pos' = pb_pos + 1
    /\ jobs_to_insert' = [jobs_to_insert EXCEPT ![c] = <<>>]
    /\ pc' = [pc EXCEPT ![c] = "done"]
    /\ UNCHANGED <<jobs_count, failures_count, inserted_count>>
    /\ UNCHANGED <<filtered, enrich_next, in_flight, collected, result>>
    /\ UNCHANGED <<main_vars, lock_vars, const_vars, unit_vars>>
    /\ UNCHANGED <<batch_buffer, cache, store, hist_vars>>

\* ------------------------------------------------------------------------
\* main() after the stream
\* ------------------------------------------------------------------------
\* stream.next() returned None: every company was handed out and every task completed
StreamDone == started = NumCompanies /\ InProgress = {}

\* the final flush made only when the buffer reached the threshold
FinalTake_OnlyIfFull ==
    /\ main_pc = "stream"
    /\ StreamDone
    /\ buffer_lock = NoOne
    /\ remaining_jobs' = batch_buffer
    /\ batch_buffer' = <<>>
    /\ IF should_flush(batch_buffer)
       THEN /\ main_pc' = "final_insert"
            /\ batches' = Append(batches, [by |-> MainTask, jobs |-> batch_buffer,
                                           status |-> "pending"])
       ELSE /\ main_pc' = "save"
            /\ batches' = batches
    /\ UNCHANGED <<started, cache_file, cache_saved>>
    /\ UNCHANGED <<pc, task_vars, lock_vars, count_vars, const_vars, unit_vars>>
    /\ UNCHANGED <<cache, store, discovered>>

\* remaining_jobs = take(buffer) under the buffer lock; insert_jobs begins if not empty
FinalTake ==
    /\ main_pc = "stream"
    /\ StreamDone
    /\ buffer_lock = NoOne
    /\ remaining_jobs' = batch_buffer
    /\ batch_buffer' = <<>>
    /\ IF batch_buffer # <<>>
       THEN /\ main_pc' = "final_insert"
            /\ batches' = Append(batches, [by |-> MainTask, jobs |-> batch_buffer,
                                           status |-> "pending"])
       ELSE /\ main_pc' = "save"
            /\ batches' = batches
    /\ UNCHANGED <<started, cache_file, cache_saved>>
    /\ UNCHANGED <<pc, task_vars, lock_vars, count_vars, const_vars, unit_vars>>
    /\ UNCHANGED <<cache, store, discovered>>

\* db.insert_jobs(&remaining_jobs).await? returned Ok
FinalInsertOk ==
    /\ main_pc = "final_insert"
    /\ store' = store \cup SeqIds(remaining_jobs)
    /\ inserted_count' = inserted_count + Len(remaining_jobs)
    /\ batches' = [batches EXCEPT ![BatchOf(MainTask)].status = "ok"]
    /\ main_pc' = "save"
    /\ UNCHANGED <<started, remaining_jobs, cache_file, cache_saved>>
    /\ UNCHANGED <<jobs_count, failures_count, pb_pos>>
    /\ UNCHANGED <<pc, task_vars, lock_vars, const_vars, unit_vars>>
    /\ UNCHANGED <<batch_buffer, cache, discovered>>

\* db.insert_jobs(&remaining_jobs).await? returned Err: main returns the error
FinalInsertErr ==
    /\ main_pc = "final_insert"
    /\ batches' = [batches EXCEPT ![BatchOf(MainTask)].status = "err"]
    /\ main_pc' = "err_insert"
    /\ UNCHANGED <<started, remaining_jobs, cache_file, cache_saved>>
    /\ UNCHANGED <<pc, task_vars, lock_vars, count_vars, const_vars, unit_vars>>
    /\ UNCHANGED <<batch_buffer, cache, store, discovered>>

\* final_cache = contents of cache under its lock; save_json writes it
SaveCache ==
    /\ main_pc = "save"
    /\ cache_lock = NoOne
    /\ cache_file' = cache
    /\ cache_saved' = TRUE
    /\ main_pc' = "exit_ok"
    /\ UNCHANGED <<started, remaining_jobs>>
    /\ UNCHANGED <<pc, task_vars, lock_vars, count_vars, const_vars, unit_vars>>
    /\ UNCHANGED <<batch_buffer, cache, store, hist_vars>>

\* save_json(...)? failed: main returns the error, the file keeps its contents
SaveCacheErr ==
    /\ main_pc = "save"
    /\ cache_lock = NoOne
    /\ main_pc' = "err_save"
    /\ UNCHANGED <<started, remaining_jobs, cache_file, cache_saved>>
    /\ UNCHANGED <<pc, task_vars, lock_vars, count_vars, const_vars, unit_vars>>
    /\ UNCHANGED <<batch_buffer, cache, store, hist_vars>>

Next ==
    \/ StartCompany
    \/ \E c \in Companies : FetchOk(c)
    \/ \E c \in Companies : EnrichStart(c)
    \/ \E c \in Companies : EnrichFinish(c)
    \/ \E c \in Companies : ProcessOk(c)
    \/ \E c \in Companies : ProcessErr(c)
    \/ \E c \in Companies : LogLock(c)
    \/ \E c \in Companies : LogWrite(c)
    \/ \E c \in Companies : LockBuffer(c)
    \/ \E c \in Companies : LockCache(c)
    \/ \E c \in Companies : PushAndTake(c)
    \/ \E c \in Companies : DropBuffer(c)
    \/ \E c \in Companies : DropCache(c)
    \/ \E c \in Companies : InsertOk(c)
    \/ \E c \in Companies : InsertErr(c)
    \/ \E c \in Companies : Progress(c)
    \/ FinalTake
    \/ FinalInsertOk
    \/ FinalInsertErr
    \/ SaveCache
    \/ SaveCacheErr

Spec == Init /\ [][Next]_vars

\* the runtime keeps polling: while some future can make a step (a request or a write
\* returns, a free mutex is taken, the stream hands out a company), a step is made
FairSpec == Spec /\ WF_vars(Next)

\* ------------------------------------------------------------------------
\* One call of process_company taken alone, with every kind of company, payload
\* and detail response, followed by the push of its task
\* ------------------------------------------------------------------------
pipeline_vars == <<main_vars, pc, task_vars, lock_vars, count_vars, const_vars,
                   batch_buffer, cache, store, hist_vars>>

\* one company of each position of the list
CallCompanies == 1..Len(AtsCycle)

\* dates a vendor may send: around both cutoffs, in each format normalize_date reads,
\* and in none
CallDates ==
    {PostedEmpty, [kind |-> "other", age |-> 0]}
    \cup [kind : {"rfc3339"},
          age : {CutoffDefaultDays - 1, CutoffDefaultDays, CutoffEoiDays - 1, CutoffEoiDays}]
    \cup {[kind |-> "rfc2822", age |-> CutoffDefaultDays],
          [kind |-> "unix", age |-> CutoffDefaultDays - 1]}

\* an item of an unrecognized structure
DriftedItem == [title |-> "intern", description |-> "", posted |-> PostedEmpty,
                decodes |-> FALSE]

CallItems ==
    [title : Titles, description : {"", "text"}, posted : CallDates, decodes : {TRUE}]
    \cup {DriftedItem}

\* payloads of up to CallMaxItems items; the vendor id of an item is its position
CallPayloads ==
    {[i \in 1..Len(p) |-> [vid |-> i, title |-> p[i].title,
                           description |-> p[i].description, posted |-> p[i].posted,
                           decodes |-> p[i].decodes]] :
        p \in UNION {[1..n -> CallItems] : n \in 0..CallMaxItems}}

\* the observability check: only after parse returned Ok
health_alert(company, payload, jobs) ==
    /\ AtsOf(company) \in {"greenhouse", "ashby"}
    /\ estimate_raw_item_count(company, payload) > 0
    /\ jobs = <<>>

\* the enrichment of a filtered job has not completed / needed no request
Pending == [sent |-> FALSE, status_ok |-> FALSE, body |-> "pending"]
NoRequest == [sent |-> FALSE, status_ok |-> FALSE, body |-> "no_request"]

InitCall ==
    /\ InitPipeline
    /\ ~log_file
    /\ concurrency = ConcurrencyScale
    /\ ucall = NoUpsert
    /\ bcall = NoBatch
    /\ jcall = NoParse
    /\ tcall = NoTagCall
    /\ rloc = NoResolve
    /\ dloc = NoDisplay
    /\ pcall \in {[NoCall EXCEPT !.company = c, !.pc = "fetch"] : c \in CallCompanies}
    /\ njob = NoJob
    /\ tables = EmptyTables(TRUE)
    /\ icall = NoInsert
    /\ query = NoQuery
    /\ geo = NoGeo

\* the list request fails, answers a non-success status, or its body is not JSON
CallFetchErr ==
    /\ pcall.pc = "fetch"
    /\ pcall' = [pcall EXCEPT !.pc = "returned",
                              !.result = [status |-> "err", jobs |-> <<>>]]
    /\ UNCHANGED <<pipeline_vars, njob, tables, icall, query, geo, dloc, rloc, tcall, jcall, bcall, ucall>>

\* the body decodes to data; parse(...)? returns the error or the jobs; then the
\* observability check and the filter
CallParse ==
    /\ pcall.pc = "fetch"
    /\ \E payload \in CallPayloads :
         IF parse_is_err(pcall.company, payload)
         THEN pcall' = [pcall EXCEPT !.data = payload, !.pc = "returned",
                                    !.result = [status |-> "err", jobs |-> <<>>]]
         ELSE LET jobs == parse(pcall.company, payload)
                  kept == FilterSeq(jobs)
              IN pcall' = [pcall EXCEPT
                              !.data = payload,
                              !.alert = health_alert(pcall.company, payload, jobs),
                              !.filtered = kept,
                              !.outcomes = [i \in 1..Len(kept) |-> Pending],
                              !.pc = "enrich"]
    /\ UNCHANGED <<pipeline_vars, njob, tables, icall, query, geo, dloc, rloc, tcall, jcall, bcall, ucall>>

\* one enrich_job completes, in any order; it made a detail request if the job needed one
CallEnrich ==
    /\ pcall.pc = "enrich"
    /\ \E i \in 1..Len(pcall.filtered) :
         /\ pcall.outcomes[i] = Pending
         /\ \E o \in (IF NeedsDetailFetch(pcall.filtered[i]) THEN DetailOutcomes
                       ELSE {NoRequest}) :
              pcall' = [pcall EXCEPT
                           !.outcomes[i] = o,
                           !.collected = Append(@, enrich_job(pcall.filtered[i], o)),
                           !.requests = @ + (IF NeedsDetailFetch(pcall.filtered[i])
                                             THEN 1 ELSE 0)]
    /\ UNCHANGED <<pipeline_vars, njob, tables, icall, query, geo, dloc, rloc, tcall, jcall, bcall, ucall>>

\* the enrichment stream is exhausted: Ok(filtered_jobs)
CallReturn ==
    /\ pcall.pc = "enrich"
    /\ \A i \in 1..Len(pcall.filtered) : pcall.outcomes[i] # Pending
    /\ pcall' = [pcall EXCEPT !.pc = "returned",
                              !.result = [status |-> "ok", jobs |-> pcall.collected]]
    /\ UNCHANGED <<pipeline_vars, njob, tables, icall, query, geo, dloc, rloc, tcall, jcall, bcall, ucall>>

\* the task of the company: the for loop under both guards, and the batch it takes
\* and hands to insert_jobs when the buffer reached BATCH_SIZE
CallPush ==
    /\ pcall.pc = "returned"
    /\ LET pushed == PushNew(pcall.result.jobs, cache, batch_buffer)
       IN /\ cache' = pushed.cache
          /\ IF should_flush(pushed.buffer)
             THEN /\ batch_buffer' = <<>>
                  /\ batches' = Append(batches, [by |-> pcall.company,
                                                 jobs |-> pushed.buffer,
                                                 status |-> "pending"])
             ELSE /\ batch_buffer' = pushed.buffer
                  /\ batches' = batches
    /\ pcall' = [pcall EXCEPT !.pc = "pushed", !.result.jobs = <<>>]
    /\ UNCHANGED <<main_vars, pc, task_vars, lock_vars, count_vars, const_vars>>
    /\ UNCHANGED <<store, discovered, njob, tables, icall, query, geo, dloc, rloc, tcall, jcall, bcall, ucall>>

CallNext ==
    \/ CallFetchErr
    \/ CallParse
    \/ CallEnrich
    \/ CallReturn
    \/ CallPush

ProcessCompanySpec == InitCall /\ [][CallNext]_vars

\* ------------------------------------------------------------------------
\* One call of normalize_job taken alone. A text is the set of the keywords it
\* holds; a location is the set of the work-mode keywords it holds.
\* ------------------------------------------------------------------------
\* rules of the tag engine, in the order of the RegexSet; "go_language" is "go"
\* within five words of "language"
TagRules ==
    <<[word |-> "golang", tag |-> "Go"], [word |-> "go_language", tag |-> "Go"],
      [word |-> "remote", tag |-> "Remote"], [word |-> "hybrid", tag |-> "Hybrid"]>>

TagWords == {TagRules[r].word : r \in 1..Len(TagRules)}

\* TagEngine::detect_tags: the tag of every rule that matches, in rule order
RECURSIVE DetectFrom(_, _)
DetectFrom(text, r) ==
    IF r > Len(TagRules) THEN <<>>
    ELSE IF TagRules[r].word \in text THEN <<TagRules[r].tag>> \o DetectFrom(text, r + 1)
         ELSE DetectFrom(text, r + 1)
detect_tags(text) == DetectFrom(text, 1)

\* extract_work_mode_and_clean: a remote keyword wins over a hybrid one
work_mode(location) ==
    IF "remote" \in location THEN "Remote"
    ELSE IF "hybrid" \in location THEN "Hybrid"
    ELSE "InOffice"

\* mode_str of normalize_job
mode_str(mode) == IF mode \in {"Remote", "Hybrid"} THEN mode ELSE ""

\* the HashSet of normalize_job
unique_tags(j) ==
    {j.tags[k] : k \in 1..Len(j.tags)}
    \cup {detect_tags(j.description)[k] : k \in 1..Len(detect_tags(j.description))}
    \cup {detect_tags(j.title)[k] : k \in 1..Len(detect_tags(j.title))}

\* the orders in which a HashSet may be collected into a Vec
Orders(S) == {o \in [1..Cardinality(S) -> S] : {o[k] : k \in 1..Cardinality(S)} = S}

\* normalize_job on the tags: the set collected in the order o, then the work mode pushed
normalize_job(j, o) ==
    [j EXCEPT !.pc = "normalized",
              !.tags = IF mode_str(work_mode(j.location)) # ""
                       THEN Append(o, mode_str(work_mode(j.location)))
                       ELSE o]

\* tags the parsers put on a job: "Remote" (Breezy is_remote), an employment type
ParserTagNames == {"Remote", "Full-time"}
ParserTags == UNION {[1..n -> ParserTagNames] : n \in 0..MaxParserTags}

InitNormalize ==
    /\ InitPipeline
    /\ ~log_file
    /\ concurrency = ConcurrencyScale
    /\ ucall = NoUpsert
    /\ bcall = NoBatch
    /\ jcall = NoParse
    /\ tcall = NoTagCall
    /\ rloc = NoResolve
    /\ dloc = NoDisplay
    /\ pcall = NoCall
    /\ tables = EmptyTables(TRUE)
    /\ icall = NoInsert
    /\ query = NoQuery
    /\ geo = NoGeo
    /\ njob \in [pc : {"enriched"}, tags : ParserTags, title : SUBSET TagWords,
                  description : SUBSET TagWords, location : SUBSET {"remote", "hybrid"}]

NormalizeJob ==
    /\ njob.pc = "enriched"
    /\ \E o \in Orders(unique_tags(njob)) : njob' = normalize_job(njob, o)
    /\ UNCHANGED <<pipeline_vars, pcall, tables, icall, query, geo, dloc, rloc, tcall, jcall, bcall, ucall>>

NormalizeSpec == InitNormalize /\ [][NormalizeJob]_vars

\* ------------------------------------------------------------------------
\* insert_jobs taken alone, on a store with all its tables. In a row, title stands
\* for the columns the UPSERT compares (title, description, location, city, region,
\* country, country_code) and posted for those it does not (company, slug, ats, url,
\* company_url, posted).
\* ------------------------------------------------------------------------
\* the label lists a job may carry
Labelings ==
    {[degree_levels |-> <<>>, subject_areas |-> <<>>, departments |-> <<>>,
      offices |-> <<>>, tags |-> <<>>],
     [degree_levels |-> <<>>, subject_areas |-> <<>>, departments |-> <<>>,
      offices |-> <<>>, tags |-> <<"a">>],
     [degree_levels |-> <<"a", "b">>, subject_areas |-> <<"a", "b">>,
      departments |-> <<"a", "b">>, offices |-> <<"a", "b">>, tags |-> <<"a", "b">>],
     [degree_levels |-> <<>>, subject_areas |-> <<>>, departments |-> <<"b">>,
      offices |-> <<>>, tags |-> <<"a", "a">>]}

StoreJobs ==
    {[id |-> i, title |-> t, posted |-> p, degree_levels |-> l.degree_levels,
      subject_areas |-> l.subject_areas, departments |-> l.departments,
      offices |-> l.offices, tags |-> l.tags] :
        i \in 1..NumVendorIds, t \in {"t1", "t2"}, p \in {"p1", "p2"}, l \in Labelings}

StoreJobLists == UNION {[1..n -> StoreJobs] : n \in 0..MaxInsertJobs}

\* statements
DeleteQ(table, ids) ==
    [op |-> "delete", table |-> table, ids |-> ids, id |-> 0, title |-> "",
     posted |-> "", name |-> ""]
UpsertQ(job) ==
    [op |-> "upsert", table |-> "jobs", ids |-> {}, id |-> job.id, title |-> job.title,
     posted |-> job.posted, name |-> ""]
InsertIgnoreQ(table, id, name) ==
    [op |-> "insert_or_ignore", table |-> table, ids |-> {}, id |-> id, title |-> "",
     posted |-> "", name |-> name]

\* the INSERT OR IGNORE statements of one job for one join table
LabelQueries(job, table) ==
    [k \in 1..Len(job[JoinField[table]]) |->
        InsertIgnoreQ(table, job.id, job[JoinField[table]][k])]

\* the statements of one job: the UPSERT, then its labels table by table
JobQueries(job) ==
    <<UpsertQ(job)>> \o LabelQueries(job, "job_degree_levels")
    \o LabelQueries(job, "job_subject_areas") \o LabelQueries(job, "job_departments")
    \o LabelQueries(job, "job_offices") \o LabelQueries(job, "job_tags")

RECURSIVE AllJobQueries(_)
AllJobQueries(jobs) ==
    IF jobs = <<>> THEN <<>> ELSE JobQueries(Head(jobs)) \o AllJobQueries(Tail(jobs))

\* insert_jobs without the DELETE statements
insert_jobs_NoDelete(jobs) == AllJobQueries(jobs)

\* insert_jobs: the queries it builds and hands to execute_batch
insert_jobs(jobs) ==
    IF jobs = <<>> THEN <<>>
    ELSE [k \in 1..Len(JoinTables) |->
             DeleteQ(JoinTables[k], {jobs[i].id : i \in 1..Len(jobs)})]
         \o AllJobQueries(jobs)

\* the effect of one statement on the store
Exec(t, q) ==
    IF q.op = "delete"
    THEN [t EXCEPT !.joins[q.table] =
             [r \in {x \in DOMAIN @ : x[1] \notin q.ids} |-> @[r]]]
    ELSE IF q.op = "upsert"
    THEN IF \E r \in t.jobs : r.id = q.id
         THEN LET old == CHOOSE r \in t.jobs : r.id = q.id
              IN IF old.title # q.title
                 THEN [t EXCEPT !.jobs = (@ \ {old})
                                   \cup {[id |-> q.id, title |-> q.title,
                                          posted |-> q.posted]}]
                 ELSE t
         ELSE [t EXCEPT !.jobs = @ \cup {[id |-> q.id, title |-> q.title,
                                          posted |-> q.posted]}]
    ELSE IF t.unique /\ BagIn(<<q.id, q.name>>, t.joins[q.table])
         THEN t
         ELSE [t EXCEPT !.joins[q.table] = @ (+) SetToBag({<<q.id, q.name>>})]

\* execute_batch when every chunk succeeds: the statements in order
RECURSIVE execute_batch(_, _)
execute_batch(t, queries) ==
    IF queries = <<>> THEN t ELSE execute_batch(Exec(t, Head(queries)), Tail(queries))

\* stores a call may find: empty, or holding job 1 with a tag and a tag row of job 2
InitialTables ==
    {EmptyTables(u) : u \in BOOLEAN}
    \cup {[EmptyTables(u) EXCEPT
              !.jobs = {[id |-> 1, title |-> "t1", posted |-> "p1"]},
              !.joins["job_tags"] = SetToBag({<<1, "a">>, <<2, "b">>})] : u \in BOOLEAN}

InitInsert ==
    /\ InitPipeline
    /\ ~log_file
    /\ concurrency = ConcurrencyScale
    /\ ucall = NoUpsert
    /\ bcall = NoBatch
    /\ jcall = NoParse
    /\ tcall = NoTagCall
    /\ rloc = NoResolve
    /\ dloc = NoDisplay
    /\ pcall = NoCall
    /\ njob = NoJob
    /\ query = NoQuery
    /\ geo = NoGeo
    /\ tables \in InitialTables
    /\ icall \in {[NoInsert EXCEPT !.jobs = l] : l \in StoreJobLists}

\* db.insert_jobs(jobs) returns Ok
InsertJobs ==
    /\ icall.calls < 2
    /\ tables' = execute_batch(tables, insert_jobs(icall.jobs))
    /\ icall' = [icall EXCEPT !.calls = @ + 1,
                              !.once = IF icall.calls = 0 THEN tables' ELSE @]
    /\ UNCHANGED <<pipeline_vars, pcall, njob, query, geo, dloc, rloc, tcall, jcall, bcall, ucall>>

InsertSpec == InitInsert /\ [][InsertJobs]_vars

\* ------------------------------------------------------------------------
\* DbQuery::to_sql taken alone. A string is the sequence of its characters; "NULL"
\* is written as one symbol.
\* ------------------------------------------------------------------------
DigitChars == <<"0", "1", "2", "3", "4", "5", "6", "7", "8", "9">>
Digits == {DigitChars[k] : k \in 1..Len(DigitChars)}
DigitVal(c) == (CHOOSE k \in 1..Len(DigitChars) : DigitChars[k] = c) - 1

\* caps[1].parse::<usize>()
RECURSIVE ParseDigits(_)
ParseDigits(run) ==
    IF run = <<>> THEN 0
    ELSE 10 * ParseDigits(SubSeq(run, 1, Len(run) - 1)) + DigitVal(run[Len(run)])

\* escape_sql_string: input.replace('\'', "''")
RECURSIVE escape_sql_string(_)
escape_sql_string(input) ==
    IF input = <<>> THEN <<>>
    ELSE (IF Head(input) = "'" THEN <<"'", "'">> ELSE <<Head(input)>>)
         \o escape_sql_string(Tail(input))

\* parameter values: serde_json::Value
StringChars == {"a", "'"}
StringValues ==
    UNION {[1..n -> StringChars] : n \in 0..MaxStringLen} \cup {<<"?", "1">>}
ParamValues ==
    [kind : {"string"}, chars : StringValues, b : {FALSE}]
    \cup [kind : {"number"}, chars : {<<"7">>, <<"4", "2">>, <<"-", "1">>}, b : {FALSE}]
    \cup [kind : {"bool"}, chars : {<<>>}, b : BOOLEAN]
    \cup [kind : {"null", "array"}, chars : {<<>>}, b : {FALSE}]

\* the match arms of to_sql
format_param(v) ==
    IF v.kind = "string" THEN <<"'">> \o escape_sql_string(v.chars) \o <<"'">>
    ELSE IF v.kind = "number" THEN v.chars
    ELSE IF v.kind = "bool" THEN (IF v.b THEN <<"1">> ELSE <<"0">>)
    ELSE <<"NULL">>

\* the map keyed by the position counted from zero
formatted_params_ZeroBased(params) ==
    [i \in 0..(Len(params) - 1) |-> format_param(params[i + 1])]

\* formatted_params: position (i + 1) -> formatted value
formatted_params(params) == [i \in 1..Len(params) |-> format_param(params[i])]

\* the end of the run of digits that starts at i
RECURSIVE DigitRunEnd(_, _)
DigitRunEnd(sql, i) ==
    IF i < Len(sql) /\ sql[i + 1] \in Digits THEN DigitRunEnd(sql, i + 1) ELSE i

\* PARAM_REGEX.replace_all: one pass over sql, each match of \?(\d+) replaced by the
\* formatted value of that index, or left as it is when the map has no such index
RECURSIVE replace_all(_, _, _)
replace_all(sql, i, formatted) ==
    IF i > Len(sql) THEN <<>>
    ELSE IF sql[i] = "?" /\ i < Len(sql) /\ sql[i + 1] \in Digits
         THEN LET j == DigitRunEnd(sql, i + 1)
                  idx == ParseDigits(SubSeq(sql, i + 1, j))
              IN (IF idx \in DOMAIN formatted THEN formatted[idx] ELSE SubSeq(sql, i, j))
                 \o replace_all(sql, j + 1, formatted)
         ELSE <<sql[i]>> \o replace_all(sql, i + 1, formatted)

\* DbQuery::to_sql
to_sql(sql, params) ==
    IF params = <<>> THEN sql ELSE replace_all(sql, 1, formatted_params(params))

\* pieces of an SQL text: a character that is no digit, or a placeholder ?N
SqlPieces ==
    [ph : {FALSE}, n : {0}, c : {"a", "'", "?"}]
    \cup [ph : {TRUE}, n : (0..(MaxParams + 1)) \cup {10 + MaxParams}, c : {"?"}]

RECURSIVE DigitsOf(_)
DigitsOf(n) == IF n < 10 THEN <<DigitChars[n + 1]>>
               ELSE DigitsOf(n \div 10) \o <<DigitChars[(n % 10) + 1]>>

\* the SQL text the pieces spell
RECURSIVE SqlOf(_)
SqlOf(pieces) ==
    IF pieces = <<>> THEN <<>>
    ELSE (IF Head(pieces).ph THEN <<"?">> \o DigitsOf(Head(pieces).n)
          ELSE <<Head(pieces).c>>) \o SqlOf(Tail(pieces))

InitToSql ==
    /\ InitPipeline
    /\ ~log_file
    /\ concurrency = ConcurrencyScale
    /\ ucall = NoUpsert
    /\ bcall = NoBatch
    /\ jcall = NoParse
    /\ tcall = NoTagCall
    /\ rloc = NoResolve
    /\ dloc = NoDisplay
    /\ pcall = NoCall
    /\ njob = NoJob
    /\ tables = EmptyTables(TRUE)
    /\ icall = NoInsert
    /\ geo = NoGeo
    /\ query \in [pc : {"built"},
                   pieces : UNION {[1..n -> SqlPieces] : n \in 0..MaxSqlPieces},
                   params : UNION {[1..n -> ParamValues] : n \in 0..MaxParams},
                   out : {<<>>}]

ToSql ==
    /\ query.pc = "built"
    /\ query' = [query EXCEPT !.pc = "rendered",
                              !.out = to_sql(SqlOf(query.pieces), query.params)]
    /\ UNCHANGED <<pipeline_vars, pcall, njob, tables, icall, geo, dloc, rloc, tcall, jcall, bcall, ucall>>

ToSqlSpec == InitToSql /\ [][ToSql]_vars

\* ------------------------------------------------------------------------
\* JobDb::initialize_geo_tables taken alone, for the two adapters. A table is
\* the bag of its rows; a region id is <<country code, subdivision>>.
\* ------------------------------------------------------------------------
Adapters == {"local", "remote"}
CountryNames == [NZ |-> "New Zealand", AU |-> "Australia"]
RegionNames == (<<"NZ", "E7">> :> "Auckland") @@ (<<"AU", "02">> :> "New South Wales")

\* location_engine.countries and location_engine.regions
CountryMaps == {[c \in S |-> CountryNames[c]] : S \in SUBSET DOMAIN CountryNames}
RegionMaps == {[r \in S |-> RegionNames[r]] : S \in SUBSET DOMAIN RegionNames}

\* the statements both adapters build: one INSERT OR IGNORE per country and per
\* region, the country code of a region being the part of its id before the dot
geo_queries(countries, regions) ==
    {[table |-> "countries", row |-> <<c, countries[c]>>] : c \in DOMAIN countries}
    \cup {[table |-> "regions", row |-> <<r, r[1], regions[r]>>] : r \in DOMAIN regions}

\* INSERT OR IGNORE: the row is left out when the table has a key and holds a row
\* of that key (code, id); without a key it is added
InsertOrIgnore(g, q) ==
    LET t == IF q.table = "countries" THEN g.countries ELSE g.regions
        held == \E x \in BagToSet(t) : x[1] = q.row[1]
        t2 == IF g.unique /\ held THEN t ELSE t (+) SetToBag({q.row})
    IN IF q.table = "countries" THEN [g EXCEPT !.countries = t2]
       ELSE [g EXCEPT !.regions = t2]

\* execute_batch of the statements when it succeeds; the maps have one entry per
\* key, so the order in which the HashMap hands them out does not matter
RECURSIVE ExecGeo(_, _)
ExecGeo(g, queries) ==
    IF queries = {} THEN g
    ELSE LET q == CHOOSE x \in queries : TRUE
         IN ExecGeo(InsertOrIgnore(g, q), queries \ {q})

\* LocalWranglerD1 asks for the row count of countries and returns when the
\* answer is read and greater than zero; RemoteD1 does not ask
geo_skips(g, count_ok) ==
    g.adapter = "local" /\ count_ok /\ BagCardinality(g.countries) > 0

\* stores a call may find
InitialCountries ==
    {EmptyBag, SetToBag({<<"NZ", "New Zealand">>}), SetToBag({<<"NZ", "Aotearoa">>})}
InitialRegions == {EmptyBag, SetToBag({<<(<<"NZ", "E7">>), "NZ", "Auckland">>})}

InitGeo ==
    /\ InitPipeline
    /\ ~log_file
    /\ concurrency = ConcurrencyScale
    /\ ucall = NoUpsert
    /\ bcall = NoBatch
    /\ jcall = NoParse
    /\ tcall = NoTagCall
    /\ rloc = NoResolve
    /\ dloc = NoDisplay
    /\ pcall = NoCall
    /\ njob = NoJob
    /\ query = NoQuery
    /\ tables = EmptyTables(TRUE)
    /\ icall = NoInsert
    /\ geo \in [adapter : Adapters, unique : BOOLEAN, countries : InitialCountries,
                 regions : InitialRegions, in_countries : CountryMaps,
                 in_regions : RegionMaps, log : {<<>>},
                 once : {<<EmptyBag, EmptyBag>>}]

\* db.initialize_geo_tables(countries, regions); count_ok: the row count was
\* answered and read, batch_ok: the chunk execute_batch sent was accepted (a
\* refused chunk writes nothing)
InitializeGeoTables ==
    /\ Len(geo.log) < 2
    /\ \E count_ok \in (IF geo.adapter = "local" THEN BOOLEAN ELSE {FALSE}),
          batch_ok \in BOOLEAN :
          LET skip == geo_skips(geo, count_ok)
              queries == geo_queries(geo.in_countries, geo.in_regions)
              done == skip \/ queries = {} \/ batch_ok
              after == IF skip \/ ~done THEN geo ELSE ExecGeo(geo, queries)
              call == [populated |-> BagCardinality(geo.countries) > 0,
                       counted |-> geo.adapter = "local",
                       count_ok |-> count_ok,
                       writes |-> IF skip THEN 0 ELSE Cardinality(queries),
                       ok |-> done]
          IN geo' = [after EXCEPT
                        !.log = Append(@, call),
                        !.once = IF geo.log = <<>>
                                 THEN <<after.countries, after.regions>> ELSE @]
    /\ UNCHANGED <<pipeline_vars, pcall, njob, tables, icall, query, dloc, rloc, tcall, jcall, bcall, ucall>>

GeoSpec == InitGeo /\ [][InitializeGeoTables]_vars

\* ------------------------------------------------------------------------
\* LocationInfo::display_format taken alone
\* ------------------------------------------------------------------------
\* Option<String>
None == [some |-> FALSE, v |-> ""]
Some(x) == [some |-> TRUE, v |-> x]

ComponentNames == {"Singapore", "New York", "United States", ""}
Options == {None} \cup {Some(x) : x \in ComponentNames}
LocationInfos == [city : Options, region : Options, country : Options]

\* parts.join(", ")
RECURSIVE Join(_)
Join(parts) ==
    IF parts = <<>> THEN ""
    ELSE IF Len(parts) = 1 THEN parts[1]
    ELSE parts[1] \o ", " \o Join(Tail(parts))

\* display_format with every present component pushed
display_format_AllParts(info) ==
    Join((IF info.city.some THEN <<info.city.v>> ELSE <<>>)
         \o (IF info.region.some THEN <<info.region.v>> ELSE <<>>)
         \o (IF info.country.some THEN <<info.country.v>> ELSE <<>>))

\* LocationInfo::display_format
display_format(info) ==
    LET parts1 == IF info.city.some THEN <<info.city.v>> ELSE <<>>
        parts2 == IF info.region.some /\ info.city # info.region
                  THEN Append(parts1, info.region.v) ELSE parts1
        parts3 == IF info.country.some
                     /\ ~(\E k \in 1..Len(parts2) : parts2[k] = info.country.v)
                  THEN Append(parts2, info.country.v) ELSE parts2
    IN Join(parts3)

InitDisplay ==
    /\ InitPipeline
    /\ ~log_file
    /\ concurrency = ConcurrencyScale
    /\ ucall = NoUpsert
    /\ bcall = NoBatch
    /\ jcall = NoParse
    /\ tcall = NoTagCall
    /\ rloc = NoResolve
    /\ pcall = NoCall
    /\ njob = NoJob
    /\ tables = EmptyTables(TRUE)
    /\ icall = NoInsert
    /\ query = NoQuery
    /\ geo = NoGeo
    /\ dloc \in [pc : {"built"}, info : LocationInfos, out : {""}]

DisplayFormat ==
    /\ dloc.pc = "built"
    /\ dloc' = [dloc EXCEPT !.pc = "formatted", !.out = display_format(dloc.info)]
    /\ UNCHANGED <<pipeline_vars, pcall, njob, tables, icall, query, geo, rloc, tcall, jcall, bcall, ucall>>

DisplaySpec == InitDisplay /\ [][DisplayFormat]_vars

\* ------------------------------------------------------------------------
\* LocationEngine::resolve taken alone, on a gazetteer in the manner of new_mock.
\* A raw location is the sequence of its segments between separators; a region
\* id is <<country code, region code>>.
\* ------------------------------------------------------------------------
\* str::to_lowercase on the strings in use
Lower(str) ==
    CASE str = "US" -> "us" [] str = "GB" -> "gb" [] str = "FR" -> "fr"
      [] str = "CA" -> "ca" [] str = "TX" -> "tx" [] str = "ENG" -> "eng"
      [] str = "United States" -> "united states" [] str = "France" -> "france"
      [] str = "United Kingdom" -> "united kingdom"
      [] str = "California" -> "california" [] str = "Texas" -> "texas"
      [] str = "England" -> "england" [] str = "Caithness" -> "caithness"
      [] str = "Ile-de-France" -> "ile-de-france"
      [] str = "San Jose" -> "san jose" [] str = "Paris" -> "paris"
      [] str = "Cambridge" -> "cambridge" [] str = "Remote" -> "remote"
      [] str = "Hybrid" -> "hybrid" [] str = "Nowhere" -> "nowhere"
      [] OTHER -> str

\* HashMap::insert
Put(m, k, v) == [x \in DOMAIN m \cup {k} |-> IF x = k THEN v ELSE m[x]]

\* the lines of countryInfo.txt, admin1CodesASCII.txt and cities15000.txt
CountryRows ==
    <<[code |-> "FR", name |-> "France"], [code |-> "GB", name |-> "United Kingdom"],
      [code |-> "US", name |-> "United States"]>>
AdminRows ==
    <<[cc |-> "FR", code |-> "11", name |-> "Ile-de-France"],
      [cc |-> "GB", code |-> "CA", name |-> "Caithness"],
      [cc |-> "GB", code |-> "ENG", name |-> "England"],
      [cc |-> "US", code |-> "CA", name |-> "California"],
      [cc |-> "US", code |-> "TX", name |-> "Texas"]>>
CityRows ==
    <<[name |-> "Cambridge", country_code |-> "GB", population |-> 145700,
       admin1 |-> "ENG"],
      [name |-> "Paris", country_code |-> "US", population |-> 24700, admin1 |-> "TX"],
      [name |-> "Paris", country_code |-> "FR", population |-> 2138551,
       admin1 |-> "11"],
      [name |-> "San Jose", country_code |-> "US", population |-> 1026908,
       admin1 |-> "CA"]>>

\* load_geonames, countries: code -> name
countries == [c \in {CountryRows[k].code : k \in 1..Len(CountryRows)} |->
                 (CHOOSE r \in {CountryRows[k] : k \in 1..Len(CountryRows)} :
                      r.code = c).name]

\* load_geonames, country_lookup: lowercased code, lowercased name and the two
\* aliases -> (code, name)
RECURSIVE LoadCountries(_)
LoadCountries(n) ==
    IF n = 0 THEN <<>>
    ELSE LET r == CountryRows[n]
         IN Put(Put(LoadCountries(n - 1), Lower(r.code), <<r.code, r.name>>),
                Lower(r.name), <<r.code, r.name>>)
country_lookup ==
    Put(Put(LoadCountries(Len(CountryRows)), "usa", <<"US", "United States">>),
        "uk", <<"GB", "United Kingdom">>)

\* load_geonames, the admin1 lines read so far: region_lookup keyed by
\* <<country, code or name>>, admin1_lookup (a line of the US, or of a region code
\* not seen before, sets both its code and its name), regions keyed by id
RECURSIVE LoadAdmin(_)
LoadAdmin(n) ==
    IF n = 0 THEN [region_lookup |-> <<>>, admin1_lookup |-> <<>>, regions |-> <<>>]
    ELSE LET r == AdminRows[n]
             e == LoadAdmin(n - 1)
             id == <<r.cc, r.code>>
             country_code == Lower(r.cc)
             region_code == Lower(r.code)
             found == <<id, r.name>>
             lookup == Put(Put(e.region_lookup, <<country_code, region_code>>, found),
                           <<country_code, Lower(r.name)>>, found)
             admin1 == IF country_code = "us" \/ region_code \notin DOMAIN e.admin1_lookup
                       THEN Put(Put(e.admin1_lookup, region_code, r.cc),
                                Lower(r.name), r.cc)
                       ELSE e.admin1_lookup
         IN [region_lookup |-> lookup, admin1_lookup |-> admin1,
             regions |-> Put(e.regions, id, r.name)]
region_lookup == LoadAdmin(Len(AdminRows)).region_lookup
admin1_lookup == LoadAdmin(Len(AdminRows)).admin1_lookup
regions == LoadAdmin(Len(AdminRows)).regions

\* load_geonames, cities: lowercased name -> the entries of that name, the
\* largest population first
CityKeys == {Lower(CityRows[k].name) : k \in 1..Len(CityRows)}
cities ==
    [key \in CityKeys |->
        LET S == {k \in 1..Len(CityRows) : Lower(CityRows[k].name) = key}
            order == CHOOSE o \in [1..Cardinality(S) -> S] :
                        /\ \A a, b \in 1..Cardinality(S) : a # b => o[a] # o[b]
                        /\ \A a, b \in 1..Cardinality(S) :
                               a < b => CityRows[o[a]].population
                                            >= CityRows[o[b]].population
        IN [k \in 1..Cardinality(S) |-> CityRows[order[k]]]]

REMOTE_KEYWORDS == {"remote", "anywhere", "wfh"}
HYBRID_KEYWORDS == {"hybrid"}

\* extract_work_mode_and_clean and the split of resolve: the segments lowercased,
\* the keywords taken out, the segments left empty dropped
extract_work_mode_and_clean(raw) ==
    LET low == [k \in 1..Len(raw) |-> Lower(raw[k])]
        kept(x) == x \notin REMOTE_KEYWORDS \cup HYBRID_KEYWORDS
    IN [parts |-> SelectSeq(low, kept),
        work_mode |-> IF \E k \in 1..Len(low) : low[k] \in REMOTE_KEYWORDS THEN "Remote"
                      ELSE IF \E k \in 1..Len(low) : low[k] \in HYBRID_KEYWORDS
                           THEN "Hybrid"
                           ELSE "InOffice"]

identify_country(parts) ==
    IF parts # <<>> /\ parts[Len(parts)] \in DOMAIN country_lookup
    THEN Some(country_lookup[parts[Len(parts)]])
    ELSE None

identify_region(parts, country_found) ==
    IF country_found.some
    THEN IF Len(parts) >= 2
            /\ <<Lower(country_found.v[1]), parts[Len(parts) - 1]>> \in DOMAIN region_lookup
         THEN Some(region_lookup[<<Lower(country_found.v[1]), parts[Len(parts) - 1]>>])
         ELSE None
    ELSE IF Len(parts) >= 1 /\ parts[Len(parts)] \in DOMAIN admin1_lookup
            /\ <<Lower(admin1_lookup[parts[Len(parts)]]), parts[Len(parts)]>>
                   \in DOMAIN region_lookup
         THEN Some(region_lookup[<<Lower(admin1_lookup[parts[Len(parts)]]),
                                   parts[Len(parts)]>>])
         ELSE None

\* the LocationInfo of a city entry
CityInfo(best, mode) ==
    [city |-> Some(best.name),
     region |-> IF <<best.country_code, best.admin1>> \in DOMAIN regions
                THEN Some(regions[<<best.country_code, best.admin1>>]) ELSE None,
     country |-> IF best.country_code \in DOMAIN countries
                 THEN Some(countries[best.country_code]) ELSE None,
     country_code |-> Some(best.country_code),
     work_mode |-> mode]

\* identify_city with the first entry taken whatever the country and region found
identify_city_FirstEntry(parts, country_found, region_found, mode) ==
    LET idx == IF region_found.some /\ ~country_found.some
               THEN (IF Len(parts) >= 2 THEN Len(parts) - 1 ELSE 0)
               ELSE (IF parts # <<>> THEN 1 ELSE 0)
    IN IF idx > 0 /\ parts[idx] \in DOMAIN cities
       THEN Some(CityInfo(cities[parts[idx]][1], mode))
       ELSE None

\* identify_city: the first entry that fits the country and the region found,
\* or else the first entry
identify_city(parts, country_found, region_found, mode) ==
    LET idx == IF region_found.some /\ ~country_found.some
               THEN (IF Len(parts) >= 2 THEN Len(parts) - 1 ELSE 0)
               ELSE (IF parts # <<>> THEN 1 ELSE 0)
    IN IF idx > 0 /\ parts[idx] \in DOMAIN cities
       THEN LET matches == cities[parts[idx]]
                fits(m) == /\ country_found.some => m.country_code = country_found.v[1]
                           /\ region_found.some
                                  => <<m.country_code, m.admin1>> = region_found.v[1]
                F == {k \in 1..Len(matches) : fits(matches[k])}
                best == IF F # {}
                        THEN matches[CHOOSE k \in F : \A l \in F : k <= l]
                        ELSE matches[1]
            IN Some(CityInfo(best, mode))
       ELSE None

\* split_whitespace
split_whitespace(part) == IF part = "san jose" THEN <<"san", "jose">> ELSE <<part>>

RECURSIVE Flatten(_)
Flatten(lists) == IF lists = <<>> THEN <<>> ELSE Head(lists) \o Flatten(Tail(lists))

create_fallback_location(country_found, region_found, mode, parts) ==
    IF region_found.some \/ country_found.some
    THEN LET inferred ==
                 IF ~country_found.some /\ region_found.some
                    /\ region_found.v[1][1] \in DOMAIN countries
                 THEN Some(<<region_found.v[1][1], countries[region_found.v[1][1]]>>)
                 ELSE country_found
         IN [city |-> None,
             region |-> IF region_found.some THEN Some(region_found.v[2]) ELSE None,
             country |-> IF inferred.some /\ inferred.v[2] # ""
                         THEN Some(inferred.v[2]) ELSE None,
             country_code |-> IF inferred.some /\ inferred.v[1] # ""
                              THEN Some(inferred.v[1]) ELSE None,
             work_mode |-> mode]
    ELSE LET tokens == Flatten([k \in 1..Len(parts) |-> split_whitespace(parts[k])])
             hits == {k \in 1..Len(tokens) : tokens[k] \in DOMAIN cities}
         IN IF hits # {}
            THEN CityInfo(cities[tokens[CHOOSE k \in hits : \A l \in hits : k <= l]][1],
                          mode)
            ELSE [city |-> None, region |-> None, country |-> None,
                  country_code |-> None, work_mode |-> mode]

\* LocationEngine::resolve
resolve(raw) ==
    LET clean == extract_work_mode_and_clean(raw)
        parts == clean.parts
        country_found == identify_country(parts)
        region_found == identify_region(parts, country_found)
        location == identify_city(parts, country_found, region_found, clean.work_mode)
    IN IF parts = <<>>
       THEN [city |-> None, region |-> None, country |-> None, country_code |-> None,
             work_mode |-> clean.work_mode]
       ELSE IF location.some THEN location.v
       ELSE create_fallback_location(country_found, region_found, clean.work_mode, parts)

\* raw locations: up to MaxSegments segments
RawSegments ==
    {"San Jose", "Paris", "Cambridge", "Texas", "TX", "CA", "California", "US",
     "England", "Nowhere", "Remote"}
RawLocations == UNION {[1..n -> RawSegments] : n \in 0..MaxSegments}

InitResolve ==
    /\ InitPipeline
    /\ ~log_file
    /\ concurrency = ConcurrencyScale
    /\ ucall = NoUpsert
    /\ bcall = NoBatch
    /\ jcall = NoParse
    /\ tcall = NoTagCall
    /\ pcall = NoCall
    /\ njob = NoJob
    /\ tables = EmptyTables(TRUE)
    /\ icall = NoInsert
    /\ query = NoQuery
    /\ geo = NoGeo
    /\ dloc = NoDisplay
    /\ rloc \in [pc : {"raw"}, raw : RawLocations, out : {<<>>}]

Resolve ==
    /\ rloc.pc = "raw"
    /\ rloc' = [rloc EXCEPT !.pc = "resolved", !.out = resolve(rloc.raw)]
    /\ UNCHANGED <<pipeline_vars, pcall, njob, tables, icall, query, geo, dloc, tcall, jcall, bcall, ucall>>

ResolveSpec == InitResolve /\ [][Resolve]_vars

\* ------------------------------------------------------------------------
\* One rule of TagEngine::detect_tags taken alone. A text is a sequence of
\* pieces: "K" a word the rule's pattern matches, "C" a word its context pattern
\* matches, "F" a word its forbidden pattern matches, "x" another word, " "
\* whitespace, "," punctuation.
\* ------------------------------------------------------------------------
WordPieces == {"K", "C", "F", "x"}
TextPieces == WordPieces \cup {" ", ","}
Texts == UNION {[1..n -> TextPieces] : n \in 0..MaxTextLen}

\* Option<usize>
NoDistance == [some |-> FALSE, v |-> 0]
Distances == {NoDistance} \cup {[some |-> TRUE, v |-> d] : d \in 0..MaxDistance}

\* TagRule: context and forbidden_context present or not, and the two distances
TagRuleShapes ==
    {r \in [context : BOOLEAN, max_word_distance : Distances,
            forbidden_context : BOOLEAN, forbidden_max_distance : Distances] :
        /\ ~r.context => r.max_word_distance = NoDistance
        /\ ~r.forbidden_context => r.forbidden_max_distance = NoDistance}

\* re.find_iter(text).map(|m| m.start()) for a pattern \bword\b: the places where
\* the word stands with no word piece next to it
find_iter(text, word) ==
    {i \in 1..Len(text) :
        /\ text[i] = word
        /\ i > 1 => text[i - 1] \notin WordPieces
        /\ i < Len(text) => text[i + 1] \notin WordPieces}
is_match(text, word) == find_iter(text, word) # {}

\* count_words: a word is counted when the whitespace after it is read
RECURSIVE CountWordsFrom(_, _, _)
CountWordsFrom(str, i, in_word) ==
    IF i > Len(str) THEN 0
    ELSE IF str[i] = " "
         THEN (IF in_word THEN 1 ELSE 0) + CountWordsFrom(str, i + 1, FALSE)
         ELSE CountWordsFrom(str, i + 1, TRUE)
count_words(str) == CountWordsFrom(str, 1, FALSE)

\* check_distance that finds every pair near enough
check_distance_Always(text, keyword, context, max_dist) == TRUE

\* check_distance: some keyword start and some context start with at most
\* max_dist words in the text between them
check_distance(text, keyword, context, max_dist) ==
    \E k_idx \in find_iter(text, keyword), c_idx \in find_iter(text, context) :
        LET start == IF k_idx < c_idx THEN k_idx ELSE c_idx
            end == IF k_idx < c_idx THEN c_idx ELSE k_idx
        IN count_words(SubSeq(text, start, end - 1)) <= max_dist

\* the closure with a forbidden match rejecting whatever the distance
detect_rule_Unconditional(text, rule) ==
    /\ is_match(text, "K")
    /\ rule.context =>
           /\ is_match(text, "C")
           /\ rule.max_word_distance.some
                  => check_distance(text, "K", "C", rule.max_word_distance.v)
    /\ ~(rule.forbidden_context /\ is_match(text, "F"))

\* the closure of detect_tags for one rule: regex_set.matches, then the context
\* and its distance, then the forbidden context and its distance
detect_rule(text, rule) ==
    /\ is_match(text, "K")
    /\ rule.context =>
           /\ is_match(text, "C")
           /\ rule.max_word_distance.some
                  => check_distance(text, "K", "C", rule.max_word_distance.v)
    /\ (rule.forbidden_context /\ is_match(text, "F")) =>
           /\ rule.forbidden_max_distance.some
           /\ ~check_distance(text, "K", "F", rule.forbidden_max_distance.v)

InitTag ==
    /\ InitPipeline
    /\ ~log_file
    /\ concurrency = ConcurrencyScale
    /\ ucall = NoUpsert
    /\ bcall = NoBatch
    /\ jcall = NoParse
    /\ pcall = NoCall
    /\ njob = NoJob
    /\ tables = EmptyTables(TRUE)
    /\ icall = NoInsert
    /\ query = NoQuery
    /\ geo = NoGeo
    /\ dloc = NoDisplay
    /\ rloc = NoResolve
    /\ tcall \in [pc : {"text"}, text : Texts, rule : TagRuleShapes, emitted : {FALSE}]

DetectRule ==
    /\ tcall.pc = "text"
    /\ tcall' = [tcall EXCEPT !.pc = "detected",
                              !.emitted = detect_rule(tcall.text, tcall.rule)]
    /\ UNCHANGED <<pipeline_vars, pcall, njob, tables, icall, query, geo, dloc, rloc, jcall, bcall, ucall>>

TagSpec == InitTag /\ [][DetectRule]_vars

\* ------------------------------------------------------------------------
\* parse_greenhouse, parse_ashby and estimate_raw_item_count taken alone, on a
\* JSON value by its shape.
\* ------------------------------------------------------------------------
\* RawGreenhouseJob has 10 fields, the last two with a default
GreenhouseFields == 10
GreenhouseDefaulted == 2

\* an element of an item array: an object with the fields of a job, an array of the
\* field values of a job in order, an object without the required fields, or an
\* array of n job objects
JsonElements ==
    [kind : {"job", "job_positional", "junk"}, n : {0}]
    \cup [kind : {"job_list"}, n : 0..MaxJsonItems]
JsonArrays == UNION {[1..n -> JsonElements] : n \in 0..MaxJsonItems}

\* a payload: an object (with or without a "jobs" member, which is an array or
\* not; itself having the fields of a job or not), a bare array of elements, a
\* bare array of len scalars that are the field values of one Greenhouse job in
\* order, or a scalar
JsonValues ==
    [shape : {"object"}, jobs : {"absent", "not_array"}, items : {<<>>},
     is_job : BOOLEAN, len : {0}]
    \cup [shape : {"object"}, jobs : {"array"}, items : JsonArrays,
          is_job : BOOLEAN, len : {0}]
    \cup [shape : {"array"}, jobs : {"absent"}, items : JsonArrays,
          is_job : {FALSE}, len : {0}]
    \cup [shape : {"field_values"}, jobs : {"absent"}, items : {<<>>}, is_job : {FALSE},
          len : (GreenhouseFields - GreenhouseDefaulted)..GreenhouseFields]
    \cup [shape : {"scalar"}, jobs : {"absent"}, items : {<<>>}, is_job : {FALSE},
          len : {0}]

\* serde reads a struct from an object with its fields or from an array of its
\* field values
DecodesAsJob(e) == e.kind \in {"job", "job_positional"}

\* serde_json::from_value::<Vec<_>> of an array: every element or an error
DecodeVec(items) ==
    IF \A k \in 1..Len(items) : DecodesAsJob(items[k])
    THEN [ok |-> TRUE, jobs |-> Len(items)]
    ELSE [ok |-> FALSE, jobs |-> 0]

\* the items that decode kept, the others passed over
get_raw_greenhouse_jobs_SkipBad(data) ==
    IF data.shape = "object" /\ data.jobs = "array"
    THEN [ok |-> TRUE,
          jobs |-> Cardinality({k \in 1..Len(data.items) : DecodesAsJob(data.items[k])})]
    ELSE IF data.shape = "array" /\ DecodeVec(data.items).ok THEN DecodeVec(data.items)
    ELSE IF (data.shape = "object" /\ data.is_job) \/ data.shape = "field_values"
         THEN [ok |-> TRUE, jobs |-> 1]
         ELSE [ok |-> FALSE, jobs |-> 0]

\* get_raw_greenhouse_jobs: the "jobs" array, else the value as a list of jobs,
\* else the value as one job
get_raw_greenhouse_jobs(data) ==
    IF data.shape = "object" /\ data.jobs = "array" THEN DecodeVec(data.items)
    ELSE IF data.shape = "array" /\ DecodeVec(data.items).ok THEN DecodeVec(data.items)
    ELSE IF (data.shape = "object" /\ data.is_job) \/ data.shape = "field_values"
         THEN [ok |-> TRUE, jobs |-> 1]
         ELSE [ok |-> FALSE, jobs |-> 0]

\* parse_greenhouse: one Job per raw job
parse_greenhouse(data) == get_raw_greenhouse_jobs(data)

\* parse_ashby: AshbyResponse from the value (an object with a "jobs" array, or an
\* array whose only element is the list of jobs), one Job per entry
parse_ashby(data) ==
    IF data.shape = "object" /\ data.jobs = "array" THEN DecodeVec(data.items)
    ELSE IF data.shape = "array" /\ Len(data.items) = 1
            /\ data.items[1].kind = "job_list"
         THEN [ok |-> TRUE, jobs |-> data.items[1].n]
         ELSE [ok |-> FALSE, jobs |-> 0]

count_greenhouse(data) ==
    IF data.shape = "object" /\ data.jobs = "array" THEN Len(data.items)
    ELSE IF data.shape = "array" THEN Len(data.items)
    ELSE IF data.shape = "field_values" THEN data.len
    ELSE 0

count_ashby(data) ==
    IF data.shape = "object" /\ data.jobs = "array" THEN Len(data.items) ELSE 0

InitParse ==
    /\ InitPipeline
    /\ ~log_file
    /\ concurrency = ConcurrencyScale
    /\ ucall = NoUpsert
    /\ bcall = NoBatch
    /\ pcall = NoCall
    /\ njob = NoJob
    /\ tables = EmptyTables(TRUE)
    /\ icall = NoInsert
    /\ query = NoQuery
    /\ geo = NoGeo
    /\ dloc = NoDisplay
    /\ rloc = NoResolve
    /\ tcall = NoTagCall
    /\ jcall \in [pc : {"decoded"}, ats : {"greenhouse", "ashby"}, data : JsonValues,
                   ok : {FALSE}, jobs : {0}, raw_item_count : {0}]

\* company.ats_type.parse(company, &data), and estimate_raw_item_count(&data) as
\* the observability check computes it
ParseData ==
    /\ jcall.pc = "decoded"
    /\ LET r == IF jcall.ats = "greenhouse" THEN parse_greenhouse(jcall.data)
                ELSE parse_ashby(jcall.data)
       IN jcall' = [jcall EXCEPT
                       !.pc = "parsed", !.ok = r.ok, !.jobs = r.jobs,
                       !.raw_item_count = IF jcall.ats = "greenhouse"
                                          THEN count_greenhouse(jcall.data)
                                          ELSE count_ashby(jcall.data)]
    /\ UNCHANGED <<pipeline_vars, pcall, njob, tables, icall, query, geo, dloc, rloc,
                   tcall, bcall, ucall>>

ParseSpec == InitParse /\ [][ParseData]_vars

\* ------------------------------------------------------------------------
\* execute_batch taken alone: the chunks of a statement list, the statements the
\* database applied.
\* ------------------------------------------------------------------------
\* queries.chunks(1000) of LocalWranglerD1, queries.chunks(50) of RemoteD1, scaled
ChunkSize(adapter) == IF adapter = "local" THEN LocalChunkScale ELSE RemoteChunkScale

\* the statement lists: statement k of a list is the number k
StatementLists == {[k \in 1..n |-> k] : n \in 0..MaxStatements}

Min(a, b) == IF a <= b THEN a ELSE b

\* the chunk the for loop is at: up to ChunkSize statements from index next on
NextChunk(b) ==
    SubSeq(b.queries, b.next, Min(b.next + ChunkSize(b.adapter) - 1, Len(b.queries)))

PrefixesOf(chunk) == {SubSeq(chunk, 1, n) : n \in 0..Len(chunk)}

\* what a chunk that failed left applied. LocalWranglerD1 writes the chunk between
\* BEGIN TRANSACTION and COMMIT: nothing of it stays. RemoteD1 posts the
\* statements joined by "; " with no transaction of its own: what stays is for
\* the service to decide, any prefix of the chunk.
FailedChunkApplied(adapter, chunk) ==
    IF adapter = "local" THEN {<<>>} ELSE PrefixesOf(chunk)

InitBatch ==
    /\ InitPipeline
    /\ ~log_file
    /\ concurrency = ConcurrencyScale
    /\ ucall = NoUpsert
    /\ pcall = NoCall
    /\ njob = NoJob
    /\ tables = EmptyTables(TRUE)
    /\ icall = NoInsert
    /\ query = NoQuery
    /\ geo = NoGeo
    /\ dloc = NoDisplay
    /\ rloc = NoResolve
    /\ tcall = NoTagCall
    /\ jcall = NoParse
    /\ bcall \in [pc : {"chunks"}, adapter : Adapters, queries : StatementLists,
                   next : {1}, submitted : {<<>>}, applied : {<<>>}, result : {"none"}]

\* one pass of the for loop whose chunk the database took
SubmitChunkOk ==
    /\ bcall.pc = "chunks"
    /\ bcall.next <= Len(bcall.queries)
    /\ bcall' = [bcall EXCEPT
                    !.submitted = Append(@, NextChunk(bcall)),
                    !.applied = @ \o NextChunk(bcall),
                    !.next = @ + Len(NextChunk(bcall))]
    /\ UNCHANGED <<pipeline_vars, pcall, njob, tables, icall, query, geo, dloc, rloc,
                   tcall, jcall, ucall>>

\* a failed chunk with the for loop going on to the next chunk
SubmitChunkErr_GoesOn ==
    /\ bcall.pc = "chunks"
    /\ bcall.next <= Len(bcall.queries)
    /\ \E left \in FailedChunkApplied(bcall.adapter, NextChunk(bcall)) :
          bcall' = [bcall EXCEPT
                       !.submitted = Append(@, NextChunk(bcall)),
                       !.applied = @ \o left,
                       !.next = @ + Len(NextChunk(bcall)),
                       !.result = "err"]
    /\ UNCHANGED <<pipeline_vars, pcall, njob, tables, icall, query, geo, dloc, rloc,
                   tcall, jcall, ucall>>

\* one pass of the for loop whose chunk failed: return Err
SubmitChunkErr ==
    /\ bcall.pc = "chunks"
    /\ bcall.next <= Len(bcall.queries)
    /\ \E left \in FailedChunkApplied(bcall.adapter, NextChunk(bcall)) :
          bcall' = [bcall EXCEPT
                       !.pc = "returned",
                       !.submitted = Append(@, NextChunk(bcall)),
                       !.applied = @ \o left,
                       !.result = "err"]
    /\ UNCHANGED <<pipeline_vars, pcall, njob, tables, icall, query, geo, dloc, rloc,
                   tcall, jcall, ucall>>

\* the for loop is over: Ok(())
ExecuteBatchOk ==
    /\ bcall.pc = "chunks"
    /\ bcall.next > Len(bcall.queries)
    /\ bcall' = [bcall EXCEPT !.pc = "returned",
                              !.result = IF @ = "none" THEN "ok" ELSE @]
    /\ UNCHANGED <<pipeline_vars, pcall, njob, tables, icall, query, geo, dloc, rloc,
                   tcall, jcall, ucall>>

BatchSpec == InitBatch /\ [][SubmitChunkOk \/ SubmitChunkErr \/ ExecuteBatchOk]_vars

\* ------------------------------------------------------------------------
\* The UPSERT of insert_jobs column by column, on a job whose id has a row.
\* ------------------------------------------------------------------------
\* INSERT INTO jobs (...), the SET list, the two halves of the WHERE clause, and
\* the columns whose parameter is Null when the field is None
InsertColumns ==
    {"id", "title", "description", "company", "slug", "ats", "url", "company_url",
     "location", "city", "region", "country", "country_code", "posted"}
SetColumns ==
    {"title", "description", "company", "slug", "ats", "url", "company_url",
     "location", "city", "region", "country", "country_code", "posted"}
NeColumns == {"title", "description", "location"}
IsNotColumns == {"city", "region", "country", "country_code"}
OptionColumns == {"company_url", "city", "region", "country", "country_code"}

SqlNull == "null"

\* a != b is true only of two values that are not NULL; a IS NOT b is true of any
\* two that differ
sql_ne(a, b) == a # SqlNull /\ b # SqlNull /\ a # b
sql_is_not(a, b) == a # b

\* DO UPDATE with no WHERE clause
upsert_where_Always(old, excluded) == TRUE

\* the WHERE clause of DO UPDATE
upsert_where(old, excluded) ==
    \/ \E c \in NeColumns : sql_ne(old[c], excluded[c])
    \/ \E c \in IsNotColumns : sql_is_not(old[c], excluded[c])

\* ON CONFLICT(id) DO UPDATE SET ... WHERE ...
upsert(old, excluded) ==
    IF upsert_where(old, excluded)
    THEN [c \in InsertColumns |-> IF c \in SetColumns THEN excluded[c] ELSE old[c]]
    ELSE old

\* params of the UPSERT: ?1 .. ?14 in the order of the column list
upsert_params(job) == [c \in InsertColumns |-> job[c]]

\* rows the table may hold for id 1: written by this program with every Option
\* Some, with every Option None, or by another hand with the texts left NULL
StoredRows ==
    {[c \in InsertColumns |-> IF c = "id" THEN 1 ELSE "a"],
     [c \in InsertColumns |->
         IF c = "id" THEN 1 ELSE IF c \in OptionColumns THEN SqlNull ELSE "a"],
     [c \in InsertColumns |->
         IF c = "id" THEN 1 ELSE IF c \in NeColumns THEN SqlNull ELSE "a"]}

\* jobs with id 1: a String field is "a" or "b", an Option field Some("a") or None
UpsertLabelings == {l \in Labelings : Len(l.tags) = Len(l.offices)}
UpsertJobs ==
    {(("id" :> 1) @@ strs @@ opts) @@ l :
        strs \in [SetColumns \ OptionColumns -> {"a", "b"}],
        opts \in [OptionColumns -> {"a", SqlNull}],
        l \in UpsertLabelings}

\* join rows the store may hold: none, or rows of job 1 and of job 2
StoredJoins ==
    {EmptyTables(TRUE),
     [EmptyTables(TRUE) EXCEPT
         !.joins["job_tags"] = SetToBag({<<1, "old">>, <<2, "b">>}),
         !.joins["job_offices"] = SetToBag({<<1, "a">>})]}

\* execute_batch on the statements of insert_jobs(&[job]): the UPSERT on the row
\* of the job's id, the other statements on the join tables
RECURSIVE execute_on_row(_, _, _)
execute_on_row(s, queries, job) ==
    IF queries = <<>> THEN s
    ELSE execute_on_row(
            IF Head(queries).op = "upsert"
            THEN [s EXCEPT !.row = upsert(@, upsert_params(job))]
            ELSE [s EXCEPT !.t = Exec(@, Head(queries))],
            Tail(queries), job)

InitUpsert ==
    /\ InitPipeline
    /\ ~log_file
    /\ concurrency = ConcurrencyScale
    /\ pcall = NoCall
    /\ njob = NoJob
    /\ tables = EmptyTables(TRUE)
    /\ icall = NoInsert
    /\ query = NoQuery
    /\ geo = NoGeo
    /\ dloc = NoDisplay
    /\ rloc = NoResolve
    /\ tcall = NoTagCall
    /\ jcall = NoParse
    /\ bcall = NoBatch
    /\ ucall \in {[pc |-> "ready", stored |-> r, job |-> j, before |-> t, row |-> r,
                    t |-> t] : r \in StoredRows, j \in UpsertJobs, t \in StoredJoins}

\* db.insert_jobs(&[job]) returns Ok
InsertOneJob ==
    /\ ucall.pc = "ready"
    /\ LET after == execute_on_row([row |-> ucall.stored, t |-> ucall.before],
                                   insert_jobs(<<ucall.job>>), ucall.job)
       IN ucall' = [ucall EXCEPT !.pc = "done", !.row = after.row, !.t = after.t]
    /\ UNCHANGED <<pipeline_vars, pcall, njob, tables, icall, query, geo, dloc, rloc,
                   tcall, jcall, bcall>>

UpsertSpec == InitUpsert /\ [][InsertOneJob]_vars


\* ========================================================================
\* Properties
\* ========================================================================
\* positions <<i, k>> of the jobs of all batches handed to insert_jobs so far
BatchPositions ==
    UNION {{<<i, k>> : k \in 1..Len(batches[i].jobs)} : i \in 1..Len(batches)}
BatchJobAt(p) == batches[p[1]].jobs[p[2]]

\* tasks that hold the jobs process_company returned and have not pushed them yet
HoldsResult(c) == pc[c] \in {"log_lock", "log_write", "lock_buffer", "lock_cache", "push"}

\* C1: across all batches passed to insert_jobs during one run (threshold
\* flushes and the final flush), each job id occurs at most once.
C1_IdAtMostOncePerRun ==
    \A p, q \in BatchPositions : p # q => BatchJobAt(p).id # BatchJobAt(q).id

\* C1 witness: a batch holds a job of one company while another company, in
\* progress at the same time, has returned a job with the same id.
C1_Witness ==
    \E p \in BatchPositions, c \in Companies :
        /\ HoldsResult(c)
        /\ BatchJobAt(p).company # c
        /\ pc[BatchJobAt(p).company] # "done"
        /\ BatchJobAt(p).id \in SeqIds(result[c].jobs)


\* C2: if insert_jobs fails for a batch, the ids of that batch's jobs are not
\* in the dedup set written to the cache file at the end of the run.
C2_FailedBatchNotInSavedCache ==
    cache_saved =>
        \A i \in 1..Len(batches) :
            batches[i].status = "err" => SeqIds(batches[i].jobs) \cap cache_file = {}

\* C3: a failed batch write never aborts the run, threshold flush or final
\* flush: main never returns the error of insert_jobs.
C3_FailedBatchNeverAborts ==
    \A i \in 1..Len(batches) : batches[i].status = "err" => main_pc # "err_insert"

\* C4: at the end of a run the dedup set equals the initial set united with
\* the ids of all jobs returned by successful process_company calls, and no
\* step ever removes an id from it.
C4_CacheIsInitPlusDiscovered ==
    /\ [](StreamDone => cache = init_cache \cup discovered)
    /\ [][cache \subseteq cache']_vars

\* C4 witness: a run ended with a non-empty initial set, a discovered id that
\* was new and a discovered id that was already in the initial set.
C4_Witness ==
    /\ main_pc = "exit_ok"
    /\ init_cache # {}
    /\ discovered \ init_cache # {}
    /\ discovered \cap init_cache # {}

\* companies whose process_company call returned Err
FailedCompanies == {c \in Companies : result[c].status = "err"}

\* jobs currently in the buffer, in a task's hands or handed to insert_jobs
JobsInPipeline ==
    {batch_buffer[k] : k \in 1..Len(batch_buffer)}
    \cup {BatchJobAt(p) : p \in BatchPositions}
    \cup UNION {{result[c].jobs[k] : k \in 1..Len(result[c].jobs)} : c \in Companies}

\* C5: a process_company failure counts exactly one failure, contributes no
\* jobs, and prevents no other company: once the stream is drained every
\* company was processed once and progress advanced once per company.
C5_FailureIsLocal ==
    /\ failures_count = Cardinality(FailedCompanies)
    /\ \A j \in JobsInPipeline : j.company \notin FailedCompanies
    /\ pb_pos = Cardinality({c \in Companies : pc[c] = "done"})
    /\ main_pc # "stream" =>
           /\ \A c \in Companies : pc[c] = "done" /\ result[c].status \in {"ok", "err"}
           /\ pb_pos = NumCompanies

\* C5 witness: the stream is drained, a company failed, and a company started
\* after that failure succeeded and its jobs were handed to insert_jobs.
C5_Witness ==
    /\ main_pc # "stream"
    /\ \E f \in FailedCompanies, p \in BatchPositions : BatchJobAt(p).company > f


\* C6: after all company tasks have finished the final flush submits what
\* remains as one batch: from then on the buffer is empty and every job that
\* was pushed to the buffer is in exactly one batch handed to insert_jobs.
C6_FinalFlushDrains ==
    main_pc # "stream" =>
        /\ batch_buffer = <<>>
        /\ \A id \in cache \ init_cache :
               Cardinality({p \in BatchPositions : BatchJobAt(p).id = id}) = 1
        /\ Cardinality({i \in 1..Len(batches) : batches[i].by = MainTask}) <= 1

\* C6 witness: a run ended after a threshold flush by a worker and a final
\* flush that had jobs to submit.
C6_Witness ==
    /\ main_pc = "exit_ok"
    /\ \E i, k \in 1..Len(batches) : batches[i].by # MainTask /\ batches[k].by = MainTask

\* C7: whenever a worker releases the buffer lock the buffer holds fewer than
\* BATCH_SIZE jobs: a worker that finds it at or above BATCH_SIZE after its
\* pushes has drained all of it into the one batch it submits.
C7_BufferBelowThreshold ==
    /\ buffer_lock = NoOne => Len(batch_buffer) < BATCH_SIZE
    /\ \A c \in Companies :
           pc[c] = "drop_buffer" =>
               /\ Len(batch_buffer) < BATCH_SIZE
               /\ jobs_to_insert[c] # <<>> =>
                      batch_buffer = <<>> /\ Len(jobs_to_insert[c]) >= BATCH_SIZE

\* C7 witness: a worker about to release the buffer lock has drained a buffer
\* that held more than BATCH_SIZE - 1 jobs.
C7_Witness ==
    \E c \in Companies : pc[c] = "drop_buffer" /\ Len(jobs_to_insert[c]) >= BATCH_SIZE

\* C8: a worker that is waiting for an HTTP response (list request or detail
\* request) or for insert_jobs holds neither the buffer lock nor the lock of
\* the dedup set.
C8_NoIoUnderLock ==
    \A c \in Companies :
        pc[c] \in {"fetch", "enrich", "insert"} => buffer_lock # c /\ cache_lock # c

\* C8 witness: one worker is inside insert_jobs while another worker holds
\* both locks.
C8_Witness ==
    \E c, d \in Companies :
        /\ pc[c] = "insert"
        /\ buffer_lock = d
        /\ cache_lock = d
        /\ c # d

\* C9: at most config.concurrency companies are in progress at any time, and
\* within one company at most ENRICH_WIDTH enrich_job futures are in flight.
C9_BoundedFanOut ==
    /\ Cardinality(InProgress) <= concurrency
    /\ \A c \in Companies : Cardinality(in_flight[c]) <= ENRICH_WIDTH

\* C9 witness: both bounds are met while more work waits: a company is still
\* to be started, and a company in progress has a job still to be enriched.
C9_Witness ==
    /\ Cardinality(InProgress) = concurrency
    /\ started < NumCompanies
    /\ \E c \in Companies :
           Cardinality(in_flight[c]) = ENRICH_WIDTH /\ enrich_next[c] < Len(filtered[c])

\* C10: every job of a batch handed to insert_jobs was returned by a
\* process_company call that had completed when the batch write began.
C10_WritesFollowCompanyWork ==
    \A p \in BatchPositions : result[BatchJobAt(p).company].status = "ok"

\* C10 witness: a batch write is under way while another company is still in
\* its enrichment stream, with a job already enriched.
C10_Witness ==
    \E c, d \in Companies :
        /\ pc[c] = "insert"
        /\ pc[d] = "enrich"
        /\ collected[d] # <<>>

\* main() has returned, with Ok or with an error
Terminated == main_pc \in {"exit_ok", "err_insert", "err_save"}

\* C11: provided every HTTP request and every database write eventually
\* returns, a run over a finite company list terminates: every company is
\* eventually processed, main eventually returns, and the final flush never
\* starts before the stream of company tasks is drained.
C11_RunTerminates ==
    /\ <>(Terminated /\ \A c \in Companies : pc[c] = "done")
    /\ [](main_pc # "stream" => StreamDone)

\* the same run with a stream width of at least one: the property TLC finds to hold
\* under FairSpec
TerminatesWithWorkers == (concurrency >= 1) => C11_RunTerminates


\* ------------------------------------------------------------------------
\* process_company taken alone (ProcessCompanySpec)
\* ------------------------------------------------------------------------
SeqRange(s) == {s[k] : k \in 1..Len(s)}

\* jobs the call has collected or returned, and jobs its task buffered or handed
\* to insert_jobs
CallJobs == SeqRange(pcall.collected) \cup SeqRange(pcall.result.jobs) \cup JobsInPipeline

\* C12: every job returned by process_company, hence every job buffered or
\* written, has a title that matches the positive keyword regex and does not
\* match the negative keyword regex.
C12_TitlePassesBothRegexes ==
    \A j \in CallJobs : keyword_regex(j.title) /\ ~negative_regex(j.title)

\* C12 witness: the call returned a job and its task buffered it, from a payload
\* that also held a title matching both regexes (no date to drop it for).
C12_Witness ==
    /\ pcall.pc = "pushed"
    /\ batch_buffer # <<>>
    /\ \E i \in 1..Len(pcall.data) :
           /\ keyword_regex(pcall.data[i].title)
           /\ negative_regex(pcall.data[i].title)
           /\ pcall.data[i].posted = PostedEmpty

\* the cutoff the claim calls applicable, in days before now
ApplicableCutoff(title) == IF is_eoi(title) THEN CutoffEoiDays ELSE CutoffDefaultDays

DetailFailed(o) ==
    /\ o.body \notin {"pending", "no_request"}
    /\ (~o.sent \/ ~o.status_ok \/ o.body = "undecodable")

\* C14: a failure of the per-job detail fetch (request error, non-success
\* status or undecodable response) never removes the job and never fails its
\* company: the job is still returned by process_company, with an empty
\* description.
C14_FailedDetailKeepsJobEmpty ==
    pcall.pc = "returned" =>
        \A i \in 1..Len(pcall.filtered) :
            DetailFailed(pcall.outcomes[i]) =>
                /\ pcall.result.status = "ok"
                /\ \E j \in SeqRange(pcall.result.jobs) :
                       j.id = pcall.filtered[i].id /\ j.description = ""

\* the part of it that holds: after a failed detail fetch the job is still
\* returned and the company has not failed
FailedDetailKeepsJob ==
    pcall.pc = "returned" =>
        \A i \in 1..Len(pcall.filtered) :
            DetailFailed(pcall.outcomes[i]) =>
                /\ pcall.result.status = "ok"
                /\ \E j \in SeqRange(pcall.result.jobs) : j.id = pcall.filtered[i].id


\* C16: when a Greenhouse or Ashby response visibly contains raw items
\* (estimate_raw_item_count > 0) but the parser cannot turn them into jobs
\* (an item of an unrecognized structure), process_company emits the PARSING
\* HEALTH ALERT warning naming the company.
C16_DriftRaisesAlert ==
    (/\ pcall.pc = "returned"
     /\ AtsOf(pcall.company) \in {"greenhouse", "ashby"}
     /\ estimate_raw_item_count(pcall.company, pcall.data) > 0
     /\ \E i \in 1..Len(pcall.data) : ~pcall.data[i].decodes)
        => pcall.alert

\* what holds instead: no call ever emits the alert, because a parse that
\* returns Ok returns one job for each raw item
AlertNeverEmitted == ~pcall.alert


\* C17: for a company whose ATS kind is Unknown, parse returns an empty job
\* list without error for any payload: the company counts as a success with
\* zero jobs, no enrichment request is made, and nothing is buffered or
\* written for it.
C17_UnknownYieldsNothing ==
    AtsOf(pcall.company) = "unknown" =>
        /\ pcall.filtered = <<>> /\ pcall.collected = <<>>
        /\ pcall.requests = 0
        /\ pcall.result.jobs = <<>>
        /\ (pcall.pc \in {"returned", "pushed"} /\ pcall.data # <<>>) =>
               pcall.result.status = "ok"
        /\ batch_buffer = <<>> /\ batches = <<>> /\ cache = init_cache

\* C17 witness: the task of an Unknown company has finished its push after a
\* payload of two items, one that would pass the filter and need a detail
\* request, one of an unrecognized structure.
C17_Witness ==
    /\ AtsOf(pcall.company) = "unknown"
    /\ pcall.pc = "pushed"
    /\ Len(pcall.data) = 2
    /\ \E i, k \in 1..Len(pcall.data) :
           /\ pcall.data[i].decodes
           /\ PassesFilter(new_job(pcall.company, pcall.data[i]))
           /\ pcall.data[i].description = ""
           /\ ~pcall.data[k].decodes


\* ------------------------------------------------------------------------
\* normalize_job taken alone (NormalizeSpec)
\* ------------------------------------------------------------------------
\* C15: for every job produced by the pipeline the tags list contains no
\* duplicate entry, whatever combination of parser-supplied tags, tags
\* detected in title and description, and resolved work mode the job has.
C15_NoDuplicateTags ==
    njob.pc = "normalized" =>
        \A a, b \in 1..Len(njob.tags) : a # b => njob.tags[a] # njob.tags[b]


\* ------------------------------------------------------------------------
\* insert_jobs taken alone (InsertSpec)
\* ------------------------------------------------------------------------
\* C18: applying insert_jobs twice to the same job list leaves the store (the
\* jobs rows and the rows of all five join tables) in the same state as
\* applying it once.
C18_InsertJobsIdempotent == icall.calls = 2 => tables = icall.once

\* C18 witness: insert_jobs ran twice on a list in which one id occurs twice
\* with different titles and with labels, on a store that held another job
\* and join tables without a key.
C18_Witness ==
    /\ icall.calls = 2
    /\ Len(icall.jobs) = 2
    /\ icall.jobs[1].id = icall.jobs[2].id
    /\ icall.jobs[1].title # icall.jobs[2].title
    /\ icall.jobs[1].tags # <<>>
    /\ ~tables.unique
    /\ \E r \in tables.jobs : r.id # icall.jobs[1].id


\* ------------------------------------------------------------------------
\* to_sql taken alone (ToSqlSpec)
\* ------------------------------------------------------------------------
\* every ' of a string written twice
RECURSIVE QuoteDoubled(_)
QuoteDoubled(str) ==
    IF str = <<>> THEN <<>>
    ELSE QuoteDoubled(SubSeq(str, 1, Len(str) - 1))
         \o (IF str[Len(str)] = "'" THEN <<"'", "'">> ELSE <<str[Len(str)]>>)

\* the rendering of a parameter: a string single-quoted with every ' doubled,
\* a number verbatim, a boolean as 1 or 0, null as NULL (an array or an object,
\* of which the claim says nothing, is rendered NULL by the code)
Rendering(v) ==
    CASE v.kind = "string" -> <<"'">> \o QuoteDoubled(v.chars) \o <<"'">>
      [] v.kind = "number" -> v.chars
      [] v.kind = "bool" -> IF v.b THEN <<"1">> ELSE <<"0">>
      [] OTHER -> <<"NULL">>

\* the SQL text with each placeholder ?N that has an N-th parameter replaced by
\* the rendering of that parameter, and everything else as it was written
RECURSIVE ExpectedSql(_, _)
ExpectedSql(pieces, params) ==
    IF pieces = <<>> THEN <<>>
    ELSE LET p == Head(pieces)
         IN (IF p.ph /\ p.n \in 1..Len(params) THEN Rendering(params[p.n])
             ELSE SqlOf(<<p>>)) \o ExpectedSql(Tail(pieces), params)

\* C19: to_sql replaces each placeholder ?N by the rendering of the N-th
\* parameter (counted from 1, whatever the order of the placeholders in the
\* SQL): strings single-quoted with every ' doubled, numbers verbatim, booleans
\* as 1 or 0, null as NULL.
C19_PlaceholdersRendered ==
    query.pc = "rendered" => query.out = ExpectedSql(query.pieces, query.params)

\* C19 witness: to_sql rendered a text in which ?2 stands before ?1, the first
\* parameter a string with a ' in it and the second a boolean.
C19_Witness ==
    /\ query.pc = "rendered"
    /\ Len(query.pieces) = 3
    /\ query.pieces[1].ph /\ query.pieces[1].n = 2
    /\ query.pieces[3].ph /\ query.pieces[3].n = 1
    /\ Len(query.params) = 2
    /\ query.params[1].kind = "string"
    /\ \E k \in 1..Len(query.params[1].chars) : query.params[1].chars[k] = "'"
    /\ query.params[2].kind = "bool"
    /\ query.out # SqlOf(query.pieces)


\* ------------------------------------------------------------------------
\* initialize_geo_tables taken alone (GeoSpec)
\* ------------------------------------------------------------------------
\* the commands the call issued were answered
CommandsOk(call) == (call.counted => call.count_ok) /\ call.ok

\* C20: initialize_geo_tables is idempotent for every persistence adapter: it
\* first queries the countries row count and issues no writes when the table is
\* already populated, so a second call leaves the store unchanged.
C20_GeoTablesIdempotent ==
    /\ \A k \in 1..Len(geo.log) :
           (geo.log[k].populated /\ CommandsOk(geo.log[k]))
               => (geo.log[k].counted /\ geo.log[k].writes = 0)
    /\ (Len(geo.log) = 2 /\ CommandsOk(geo.log[1]) /\ CommandsOk(geo.log[2]))
           => <<geo.countries, geo.regions>> = geo.once

\* LocalWranglerD1 given a map with a country does what C20 says
LocalGeoTablesIdempotent ==
    (geo.adapter = "local" /\ DOMAIN geo.in_countries # {}) => C20_GeoTablesIdempotent

\* RemoteD1 leaves tables that have a key unchanged at a second call
RemoteKeyedStoreUnchanged ==
    (geo.adapter = "remote" /\ geo.unique /\ Len(geo.log) = 2
        /\ geo.log[1].ok /\ geo.log[2].ok)
        => <<geo.countries, geo.regions>> = geo.once

\* RemoteD1 never asks for the row count and writes each time
RemoteAlwaysWrites ==
    \A k \in 1..Len(geo.log) :
        geo.adapter = "remote"
            => (~geo.log[k].counted
                /\ geo.log[k].writes = Cardinality(geo_queries(geo.in_countries,
                                                                geo.in_regions)))


\* ------------------------------------------------------------------------
\* display_format taken alone (DisplaySpec)
\* ------------------------------------------------------------------------
\* the components of a LocationInfo that are present, in city, region, country order
Present(info) ==
    (IF info.city.some THEN <<info.city.v>> ELSE <<>>)
    \o (IF info.region.some THEN <<info.region.v>> ELSE <<>>)
    \o (IF info.country.some THEN <<info.country.v>> ELSE <<>>)

\* a list without the entries that stand earlier in it
RECURSIVE FirstOccurrences(_)
FirstOccurrences(list) ==
    IF list = <<>> THEN <<>>
    ELSE LET front == SubSeq(list, 1, Len(list) - 1)
             last == list[Len(list)]
         IN IF \E k \in 1..Len(front) : front[k] = last
            THEN FirstOccurrences(front)
            ELSE Append(FirstOccurrences(front), last)

\* C21: for every LocationInfo (any combination of present or absent city,
\* region and country, with any equal strings among them) display_format joins
\* the present components in city, region, country order, and no component
\* string occurs twice in the result.
C21_DisplayJoinsWithoutRepeat ==
    dloc.pc = "formatted" => dloc.out = Join(FirstOccurrences(Present(dloc.info)))

\* C21 witness: display_format returned for a LocationInfo without a city whose
\* region and country are the same string.
C21_Witness ==
    /\ dloc.pc = "formatted"
    /\ ~dloc.info.city.some
    /\ dloc.info.region = Some("Singapore")
    /\ dloc.info.country = Some("Singapore")
    /\ dloc.out = "Singapore"


\* ------------------------------------------------------------------------
\* resolve taken alone (ResolveSpec)
\* ------------------------------------------------------------------------
\* the tokens of the raw location of the call
ResolveParts == extract_work_mode_and_clean(rloc.raw).parts
LastToken == ResolveParts[Len(ResolveParts)]

\* the last token is no country and is known to the inference index
RegionOnlyCase ==
    /\ rloc.pc = "resolved"
    /\ ResolveParts # <<>>
    /\ LastToken \notin DOMAIN country_lookup
    /\ LastToken \in DOMAIN admin1_lookup

\* the region the last token names in the country the index infers for it
InferredRegion ==
    CHOOSE r \in {AdminRows[k] : k \in 1..Len(AdminRows)} :
        /\ r.cc = admin1_lookup[LastToken]
        /\ LastToken \in {Lower(r.code), Lower(r.name)}

\* the entries of the city index under the token before the last
CityCandidates ==
    IF Len(ResolveParts) >= 2 /\ ResolveParts[Len(ResolveParts) - 1] \in DOMAIN cities
    THEN {cities[ResolveParts[Len(ResolveParts) - 1]][k] :
              k \in 1..Len(cities[ResolveParts[Len(ResolveParts) - 1]])}
    ELSE {}
InRegion(m) == m.country_code = InferredRegion.cc /\ m.admin1 = InferredRegion.code

\* C22: when the last token of a location is not a country but is a region code
\* or name known to the region-to-country inference index, resolve identifies
\* that region, infers its country, and takes the city from the token before
\* it: the result has that region and the inferred country code.
C22_RegionAndCountryInferred ==
    RegionOnlyCase =>
        /\ rloc.out.region = Some(InferredRegion.name)
        /\ rloc.out.country_code = Some(InferredRegion.cc)
        /\ CityCandidates # {} => \E m \in CityCandidates : rloc.out.city = Some(m.name)

\* C22 as amended: the same, unless the token before the last names cities none
\* of which lies in that region; the result is then the city of that name with
\* the largest population, with its own region and country.
C22_RegionInferredUnlessCityElsewhere ==
    RegionOnlyCase =>
        IF CityCandidates # {} /\ ~(\E m \in CityCandidates : InRegion(m))
        THEN \E m \in CityCandidates :
                /\ \A o \in CityCandidates : m.population >= o.population
                /\ rloc.out.city = Some(m.name)
                /\ rloc.out.country_code = Some(m.country_code)
                /\ rloc.out.region = Some(regions[<<m.country_code, m.admin1>>])
        ELSE /\ rloc.out.region = Some(InferredRegion.name)
             /\ rloc.out.country_code = Some(InferredRegion.cc)
             /\ rloc.out.country = Some(countries[InferredRegion.cc])
             /\ IF CityCandidates = {} THEN rloc.out.city = None
                ELSE \E m \in CityCandidates : InRegion(m) /\ rloc.out.city = Some(m.name)

\* C22 witness: "Paris, Texas" resolved to the smaller Paris, the one in Texas.
C22_Witness ==
    /\ RegionOnlyCase
    /\ rloc.raw = <<"Paris", "Texas">>
    /\ rloc.out.city = Some("Paris")
    /\ rloc.out.region = Some("Texas")
    /\ rloc.out.country_code = Some("US")


\* ------------------------------------------------------------------------
\* one rule of detect_tags taken alone (TagSpec)
\* ------------------------------------------------------------------------
\* the number of the whitespace-separated word in which a place of the text lies
WordIndex(text, i) ==
    Cardinality({p \in 1..i : text[p] # " " /\ (p = 1 \/ text[p - 1] = " ")})

\* some occurrence of the rule's pattern lies within d whitespace-separated words
\* of some occurrence of the other pattern
WithinWords(text, word, d) ==
    \E i \in find_iter(text, "K"), j \in find_iter(text, word) :
        WordIndex(text, i) - WordIndex(text, j) \in (0 - d)..d

\* C23: for a tag rule with a negative (forbidden) context pattern that matches
\* the text: without a forbidden distance the rule's label is never emitted;
\* with a forbidden distance F the label is suppressed exactly when some keyword
\* occurrence lies within F words of some forbidden occurrence, and is emitted
\* otherwise (the rule's own pattern matching, and the rule having no positive
\* context to fail).
C23_ForbiddenContextSuppresses ==
    (tcall.pc = "detected" /\ tcall.rule.forbidden_context /\ is_match(tcall.text, "F"))
        => IF ~tcall.rule.forbidden_max_distance.some
           THEN ~tcall.emitted
           ELSE /\ WithinWords(tcall.text, "F", tcall.rule.forbidden_max_distance.v)
                       => ~tcall.emitted
                /\ (/\ ~WithinWords(tcall.text, "F",
                                     tcall.rule.forbidden_max_distance.v)
                    /\ is_match(tcall.text, "K")
                    /\ ~tcall.rule.context) => tcall.emitted

\* C23 witness: the rule with forbidden distance 1 gave its tag on a text whose
\* keyword and forbidden word are two words apart, as in "K x F".
C23_Witness ==
    /\ tcall.pc = "detected"
    /\ tcall.rule.forbidden_context
    /\ tcall.rule.forbidden_max_distance = [some |-> TRUE, v |-> 1]
    /\ tcall.text = <<"K", " ", "x", " ", "F">>
    /\ tcall.emitted

\* C24: for a tag rule with a positive context pattern and maximum word distance
\* D, detect_tags emits the rule's label only if the context pattern matches the
\* text and some occurrence of the rule's pattern lies within D
\* whitespace-separated words of some occurrence of the context pattern.
C24_ContextWithinDistance ==
    (tcall.pc = "detected" /\ tcall.rule.context /\ tcall.rule.max_word_distance.some
        /\ tcall.emitted)
        => /\ is_match(tcall.text, "C")
           /\ WithinWords(tcall.text, "C", tcall.rule.max_word_distance.v)

\* C24 witness: a rule with distance 1 gave no tag on a text whose only context
\* word is two words from the keyword, and nothing forbidden stood in the text.
C24_Witness ==
    /\ tcall.pc = "detected"
    /\ tcall.rule.context
    /\ tcall.rule.max_word_distance = [some |-> TRUE, v |-> 1]
    /\ ~tcall.rule.forbidden_context
    /\ tcall.text = <<"C", " ", "x", " ", "K">>
    /\ ~tcall.emitted


\* ------------------------------------------------------------------------
\* the pipeline again (Spec): locks, the initial dedup set, batch sizes
\* ------------------------------------------------------------------------
\* the lock a task is waiting for, and the task that holds it
WaitsFor(c) ==
    IF pc[c] = "log_lock" THEN log_lock
    ELSE IF pc[c] = "lock_buffer" THEN buffer_lock
    ELSE IF pc[c] = "lock_cache" THEN cache_lock
    ELSE NoOne

\* where the locks are held: the job loop and the take run under both guards, the
\* dedup set is locked only by the holder of the buffer, the log lock and the two
\* others are never held together, and a task that holds a lock another waits for
\* is not waiting for a lock itself
LocksOrdered ==
    \A c \in Companies :
        /\ pc[c] = "push" => (buffer_lock = c /\ cache_lock = c)
        /\ pc[c] = "lock_cache" => (buffer_lock = c /\ cache_lock # c)
        /\ pc[c] = "lock_buffer" => (buffer_lock # c /\ cache_lock # c)
        /\ log_lock = c => (buffer_lock # c /\ cache_lock # c)
        /\ WaitsFor(c) \in Companies => WaitsFor(WaitsFor(c)) = NoOne

\* a step that changes the buffer or the dedup set is the step of the worker that
\* holds both locks, or is the take of main after the stream
OnlyHolderWrites ==
    (batch_buffer' # batch_buffer \/ cache' # cache) =>
        \/ \E c \in Companies :
              /\ buffer_lock = c /\ cache_lock = c
              /\ pc[c] = "push" /\ pc'[c] # "push"
              /\ \A d \in Companies \ {c} : pc'[d] = pc[d]
        \/ (StreamDone /\ buffer_lock = NoOne /\ cache' = cache)

\* C25: for each job, the membership check, the dedup-set insertion and the
\* buffer push happen in one critical section that no other worker can
\* interleave with, and the locks are always acquired in the same order (buffer,
\* then dedup set) and never nested with the log-file lock, so no two workers
\* can deadlock.
C25_OneCriticalSectionNoDeadlock == []LocksOrdered /\ [][OnlyHolderWrites]_vars

\* C25 witness: with a log file, one worker is in the job loop under both locks
\* with jobs to push while a second worker waits for the buffer.
C25_Witness ==
    \E a, b \in Companies :
        /\ log_file
        /\ pc[a] = "push" /\ buffer_lock = a /\ cache_lock = a
        /\ result[a].jobs # <<>>
        /\ pc[b] = "lock_buffer"


\* the jobs the run has pushed to the buffer or handed to insert_jobs
PushedJobs ==
    SeqRange(batch_buffer) \cup SeqRange(remaining_jobs)
    \cup UNION {SeqRange(jobs_to_insert[c]) : c \in Companies}
    \cup UNION {SeqRange(batches[k].jobs) : k \in 1..Len(batches)}

\* C26: a job whose id is in the initial dedup set (cache file contents united
\* with the ids already in the store) is never pushed to the buffer nor passed
\* to insert_jobs during the run, so rows that existed in the store at startup
\* are never rewritten by the run.
C26_InitialIdsNeverWritten ==
    /\ init_cache = FileIds \cup StoreIds
    /\ \A j \in PushedJobs : j.id \notin init_cache /\ j.id \notin StoreIds

\* C26 witness: the run has ended, a company had returned a job whose id was in
\* the initial dedup set, and insert_jobs was called with other jobs.
C26_Witness ==
    /\ main_pc = "exit_ok"
    /\ discovered \cap init_cache # {}
    /\ StoreIds # {}
    /\ batches # <<>>


\* ------------------------------------------------------------------------
\* the parsers of Greenhouse and Ashby taken alone (ParseSpec)
\* ------------------------------------------------------------------------
\* the payloads C27 speaks of, parsed with success
ParsedCountedPayload ==
    /\ jcall.pc = "parsed"
    /\ jcall.ok
    /\ \/ jcall.ats = "ashby"
       \/ jcall.data.shape \in {"array", "field_values"}
       \/ jcall.data.shape = "object" /\ jcall.data.jobs = "array"

\* the payload is an array that serde read by position as one struct: the field
\* values of a single Greenhouse job, or an Ashby response given as the array
\* that holds its job list
ReadByPosition ==
    \/ jcall.ats = "greenhouse" /\ jcall.data.shape = "field_values"
    \/ jcall.ats = "ashby" /\ jcall.data.shape = "array"

HealthAlertState == jcall.raw_item_count > 0 /\ jcall.jobs = 0

\* C27: whenever parsing of a Greenhouse payload shaped as an object with a jobs
\* array or as a bare array, or of an Ashby payload, succeeds, the number of
\* parsed jobs equals estimate_raw_item_count, so the state 'raw count > 0 and
\* parsed list empty' that triggers the PARSING HEALTH ALERT is never reached.
C27_ParsedEqualsRawCount ==
    ParsedCountedPayload =>
        (jcall.jobs = jcall.raw_item_count /\ ~HealthAlertState)

\* C27 as amended: the counts are equal unless the payload is a bare array read
\* by position as one struct; the state of the alert is reached in no case.
C27_ParsedEqualsRawCountUnlessPositional ==
    (jcall.pc = "parsed" /\ jcall.ok) =>
        /\ (ParsedCountedPayload /\ ~ReadByPosition)
               => jcall.jobs = jcall.raw_item_count
        /\ ~HealthAlertState

\* C27 witness: a Greenhouse object whose jobs array holds two items, one of them
\* given by position, was parsed into two jobs.
C27_Witness ==
    /\ jcall.pc = "parsed" /\ jcall.ok
    /\ jcall.ats = "greenhouse"
    /\ jcall.data.shape = "object" /\ jcall.data.jobs = "array"
    /\ Len(jcall.data.items) = 2
    /\ \E k \in 1..2 : jcall.data.items[k].kind = "job_positional"
    /\ jcall.jobs = 2 /\ jcall.raw_item_count = 2


\* ------------------------------------------------------------------------
\* the pipeline: sizes of the batches (Spec)
\* ------------------------------------------------------------------------
\* every batch a worker handed to insert_jobs is full, the one of the final flush
\* is not
BatchSizes ==
    \A i \in 1..Len(batches) :
        IF batches[i].by = MainTask
        THEN Len(batches[i].jobs) < BATCH_SIZE
        ELSE Len(batches[i].jobs) >= BATCH_SIZE

\* a critical section that takes a batch takes at most what the buffer held
\* below BATCH_SIZE plus the jobs its company returned
TakeBounded ==
    \A c \in Companies :
        (pc[c] = "push" /\ pc'[c] # "push" /\ jobs_to_insert'[c] # <<>>) =>
            /\ Len(jobs_to_insert'[c]) >= BATCH_SIZE
            /\ Len(jobs_to_insert'[c]) <= (BATCH_SIZE - 1) + Len(result[c].jobs)

\* C28: every batch flushed by a worker during the run contains at least B jobs
\* and at most (B - 1) plus the number of jobs returned by that worker's company,
\* and the final-flush batch contains fewer than B jobs.
C28_BatchSizesBounded == []BatchSizes /\ [][TakeBounded]_vars

\* C28 witness: a worker flushed a batch and the final flush then took a batch
\* that is not empty.
C28_Witness ==
    /\ \E i \in 1..Len(batches) : batches[i].by # MainTask
    /\ \E i \in 1..Len(batches) :
          batches[i].by = MainTask /\ batches[i].jobs # <<>>


\* ------------------------------------------------------------------------
\* execute_batch taken alone (BatchSpec)
\* ------------------------------------------------------------------------
\* the i-th of the chunks of a list cut every size statements
ChunkAt(list, size, i) == SubSeq(list, (i - 1) * size + 1, Min(i * size, Len(list)))
NumChunks(list, size) == (Len(list) + size - 1) \div size

RECURSIVE Concat(_)
Concat(seqs) == IF seqs = <<>> THEN <<>> ELSE Head(seqs) \o Concat(Tail(seqs))

\* the chunks went out in order, none skipped
SubmittedInOrder ==
    /\ Len(bcall.submitted) <= NumChunks(bcall.queries, ChunkSize(bcall.adapter))
    /\ \A i \in 1..Len(bcall.submitted) :
          bcall.submitted[i] = ChunkAt(bcall.queries, ChunkSize(bcall.adapter), i)

\* after Err: the chunk that failed is the last one submitted, every chunk before
\* it is applied whole, of the failed chunk nothing (local) or a part (remote),
\* of the chunks after it nothing
StoppedAtFirstFailure ==
    (bcall.pc = "returned" /\ bcall.result = "err") =>
        LET k == Len(bcall.submitted)
            earlier == Concat(SubSeq(bcall.submitted, 1, k - 1))
        IN /\ k >= 1
           /\ \E left \in PrefixesOf(bcall.submitted[k]) :
                 /\ bcall.applied = earlier \o left
                 /\ bcall.adapter = "local" => left = <<>>
           /\ \A q \in 1..Len(bcall.queries) :
                 q > k * ChunkSize(bcall.adapter)
                    => \A j \in 1..Len(bcall.applied) : bcall.applied[j] # q

AllAppliedOnOk ==
    (bcall.pc = "returned" /\ bcall.result = "ok") =>
        /\ bcall.applied = bcall.queries
        /\ Len(bcall.submitted) = NumChunks(bcall.queries, ChunkSize(bcall.adapter))

\* C29: execute_batch submits the chunks of a statement list strictly in order
\* and stops at the first chunk that fails: statements of earlier chunks stay
\* applied and statements of later chunks are never executed, so insert_jobs is
\* all-or-nothing only within one chunk, not across the chunks of a batch.
C29_ChunksInOrderStopAtFailure ==
    SubmittedInOrder /\ StoppedAtFirstFailure /\ AllAppliedOnOk

\* C29 witness: a local batch of three chunks failed at its second chunk; the
\* first chunk is applied, nothing else is.
C29_Witness ==
    /\ bcall.pc = "returned" /\ bcall.result = "err"
    /\ bcall.adapter = "local"
    /\ NumChunks(bcall.queries, ChunkSize(bcall.adapter)) = 3
    /\ Len(bcall.submitted) = 2
    /\ bcall.applied = bcall.submitted[1]


\* ------------------------------------------------------------------------
\* the UPSERT column by column (UpsertSpec)
\* ------------------------------------------------------------------------
ComparedColumns ==
    {"title", "description", "location", "city", "region", "country", "country_code"}
UncomparedColumns == {"company", "slug", "ats", "url", "company_url", "posted"}

Differing(cols) == {c \in cols : ucall.job[c] # ucall.stored[c]}

\* the rows of job id in a join table
JoinRowsOf(t, table, id) == {r \in BagToSet(t.joins[table]) : r[1] = id}

\* the join rows of the job are the job's labels, one row each, whatever rows
\* the tables held for it; rows of other jobs are as they were
JoinsRewritten ==
    \A k \in 1..Len(JoinTables) :
        LET table == JoinTables[k]
            labels == ucall.job[JoinField[table]]
        IN /\ JoinRowsOf(ucall.t, table, ucall.job.id)
                 = {<<ucall.job.id, labels[i]>> : i \in 1..Len(labels)}
           /\ \A r \in JoinRowsOf(ucall.t, table, ucall.job.id) :
                 CopiesIn(r, ucall.t.joins[table]) = 1
           /\ \A r \in BagToSet(ucall.before.joins[table]) :
                 r[1] # ucall.job.id
                    => CopiesIn(r, ucall.t.joins[table])
                          = CopiesIn(r, ucall.before.joins[table])

\* C30: the UPSERT emitted by insert_jobs rewrites an existing jobs row only when
\* title, description, location, city, region, country or country_code differs
\* from the stored row; a job differing from the stored row only in company,
\* slug, ats, url, company_url or posted leaves the jobs row unchanged, while its
\* join-table rows are still deleted and re-inserted.
C30_UpsertRewritesOnComparedColumns ==
    ucall.pc = "done" =>
        /\ ucall.row # ucall.stored => Differing(ComparedColumns) # {}
        /\ (Differing(ComparedColumns) = {} /\ Differing(UncomparedColumns) # {})
              => ucall.row = ucall.stored
        /\ JoinsRewritten

\* C30 witness: a job with labels that differs from the stored row in posted and
\* company only was inserted; the row is as it was, the old tag row of the job is
\* gone and the job's tags are there.
C30_Witness ==
    /\ ucall.pc = "done"
    /\ Differing(InsertColumns) = {"posted", "company"}
    /\ ucall.row = ucall.stored
    /\ ucall.job.tags # <<>>
    /\ BagIn(<<1, "old">>, ucall.before.joins["job_tags"])
    /\ ~BagIn(<<1, "old">>, ucall.t.joins["job_tags"])
    /\ BagIn(<<1, ucall.job.tags[1]>>, ucall.t.joins["job_tags"])

====
